---- MODULE Spec2Model ----
(***************************************************************************)
(* r/MemeMarket: the wager ledger (bet placement and wager resolution)     *)
(* and the market simulator (quotes, ticks, shocks).                       *)
(*                                                                         *)
(* Numbers.  JavaScript numbers with a fractional part are kept in fixed   *)
(* point: memeCoins and odds are stored multiplied by FP, prices by        *)
(* PriceScale.  Clock values of the ledger are whole hours: Date.now()     *)
(* and RedditPost.created (both milliseconds in the program) are stored    *)
(* divided by 3 600 000, which keeps every comparison of the source exact  *)
(* for timestamps that are whole hours.                                    *)
(***************************************************************************)
EXTENDS Integers, Sequences, FiniteSets, TLC

VARIABLES
    now,            \* Date.now(), in hours since 1970
    trendingPosts,  \* gameState.trendingPosts: post id -> RedditPost
    portfolio,      \* gameState.userPortfolio
    nextPredId,     \* the source of fresh prediction ids
    lastOp,         \* history: the operation that acted last and its input
    prev,           \* history: the portfolio before the last operation
    resolves,       \* history: how often resolvePredictions has run
    marketData,     \* MarketEngine.marketData: post id -> MarketData
    sectors,        \* MarketEngine.sectors: sector id -> activeUntil
    currentSector,  \* MarketEngine.currentSector (its id)
    mclock,         \* Date.now() of the market engine, in tick periods (30 s)
    ticks,          \* history: how often the tick timer has fired
    shocks,         \* history: market events since the last tick
    oddsCall,       \* the last call of calculateOdds: its arguments and result
    accrued,        \* history: the staking reward accrued so far, in coins
                    \* times tenths of a percent (APR) times hours
    tournament,     \* a Tournament of TournamentService.tournaments
    players,        \* the portfolios of the users who may join: userId -> portfolio
    tcall,          \* the last call of the tournament service and its result
    streakCall,     \* the last call of calculateStreaks: its input and result
    analyticsCall,  \* the last analytics query: its name, portfolio.predictions
                    \* before it and after it
    updateInterval, \* MarketEngine.updateInterval: the interval timers that
                    \* have been started and not cleared, and whether
                    \* destroy() has been called
    rotations,      \* history: the calls of rotateSector and the last one's
                    \* sectors
    mounted         \* the initializeMarket of the mount: the portfolio its
                    \* closure holds and whether its fetch is awaited

vars ==
    <<now, trendingPosts, portfolio, nextPredId, lastOp, prev, resolves,
      marketData, sectors, currentSector, mclock, ticks, shocks, oddsCall,
      accrued, tournament, players, tcall, streakCall, analyticsCall,
      updateInterval, rotations, mounted>>

ledgerVars ==
    <<now, trendingPosts, portfolio, nextPredId, lastOp, prev, resolves, mounted>>
marketVars ==
    <<marketData, sectors, currentSector, mclock, ticks, shocks, updateInterval,
      rotations>>
tournamentVars == <<tournament, players, tcall>>
serviceVars ==
    <<oddsCall, accrued, tournament, players, tcall, streakCall, analyticsCall>>

-----------------------------------------------------------------------------
(* Bounds of the model *)

MaxPredictions == 2      \* predictions a portfolio holds at most
MaxClock == 24           \* hours the ledger clock runs past EpochHours
MaxResolves == 2         \* runs of resolvePredictions
AdvanceSteps == {24}     \* hours one step of the clock may take

PostIds == {"p1"}
\* score and commentCount a fetch may report for a post
PostData ==
    {[score |-> 100, commentCount |-> 5000],
     [score |-> 1300, commentCount |-> 0]}
\* the targets a prediction of a type may name: with the values of PostData
\* each type has a condition that is met and one that is not
TargetSet(type) ==
    CASE type = "growth_rate" -> {50, 1300}
      [] type = "milestone_reach" -> {50, 1300}
      [] type = "ranking_position" -> {50}
      [] type = "engagement_ratio" -> {50}
      [] type = "virality_index" -> {1300}
\* betAmount and timeframe of a bet
StakeSet ==
    {<<9, "LONG">>, <<30, "SHORT">>, <<1000, "LONG">>, <<1001, "LONG">>}
RankingDraws == {1, 50}                   \* values of floor(random * 50) + 1

MaxTicks == 2            \* firings of the tick timer
MaxShockRun == 2         \* market events between two ticks
MarketPostIds == {"p1"}
TickGaps == {1, 60}      \* tick periods between two firings of the timer
RandomDraws == {0, 3}    \* values of Math.random(), in quarters
MaxRotations == 1        \* sector rotations
MaxSectorCalls == 6      \* calls of rotateSector when only sectors are studied
MaxSectorClock == 5760   \* tick periods the sector clock runs (two days)
SectorWaits == {720, 2880}   \* tick periods between two calls: 6 h and 24 h
\* the five draws of one price update: volatility, random factor, trending
\* bias, volume, ranking
DrawVectors == {<<0, 0, 0, 0, 0>>, <<3, 3, 3, 3, 3>>, <<0, 3, 0, 3, 0>>}
\* the composite price of calculateInitialPrice before rounding, in
\* PriceScale units: a negative score term, zero, just below and just above
\* half a cent, and ordinary prices
RawPriceSet == {0 - 2000, 0, 49, 50, 250, 10000}

\* the arguments of calculateOdds: posts with and without upvotes and
\* comments, created at a time given in seconds (OddsEpoch, the unit the
\* age computation expects) or in milliseconds (as RedditAPI delivers it);
\* quotes without a ranking and with rankings of each class; the names of the
\* prediction types as stored on a Prediction and as keys of PREDICTION_TYPES
OddsEpoch == 490
OddsPosts ==
    {[id |-> "p1", score |-> sc, commentCount |-> cc, created |-> cr,
      subreddit |-> sub] :
        sc \in {0, 100}, cc \in {0, 5000}, cr \in {OddsEpoch, 490000 - 2},
        sub \in {"nextfuckinglevel", "unlisted"}}
OddsRankings == {0, 3, 15, 80}
OddsTypes ==
    {"growth_rate", "milestone_reach", "ranking_position", "engagement_ratio",
     "virality_index", "GROWTH_RATE", "MILESTONE_REACH", "RANKING_POSITION",
     "ENGAGEMENT_RATIO", "VIRALITY_INDEX", "unknown"}
OddsTargets == {0, 3, 50, 1300}
OddsTimeframes == {"SHORT", "LONG", "EXTENDED", "unknown"}
OddsClock == {0, 2, 5, 10, 20, 30}      \* hours past EpochHours

MaxStakeClock == 96          \* hours the staking clock runs past EpochHours
StakeSteps == {24, 72}       \* hours between two staking operations
StakeBalances == {7000, 12000}       \* memeCoins of the staking portfolio
StakeAmounts == {1000, 6000}         \* coins to stake or unstake

\* the tournament service
Prefilled == {0, 3, 98}      \* participants who joined before the users do
Users == {"u1", "u2", "u3"}  \* the users who may join
ScoreUsers == {"u1", "u2", "bot1", "bot2", "ghost"}  \* userId of a scored bet
ConsecutiveWins == {1, 3}    \* consecutiveWins of a scored bet
MaxScores == 2               \* calls of updateTournamentPoints in a behaviour

\* the streak statistics
MaxStreakLen == 5            \* predictions of the portfolio given to calculateStreaks
StreakStatuses == {"won", "lost", "active"}

\* the analytics queries
MaxQueryLen == 3             \* predictions of the portfolio given to a query
QueryTimes == {1, 2, 3}      \* Prediction.created, in hours past EpochHours
QueryStatuses == {"won", "active"}

-----------------------------------------------------------------------------
(* Arithmetic *)

Abs(x) == IF x < 0 THEN 0 - x ELSE x
Max(a, b) == IF a >= b THEN a ELSE b
Min(a, b) == IF a <= b THEN a ELSE b

\* floor(p * m / 1000) for p and m >= 0, without leaving the
\* range of TLC's integers
ScaledProduct(p, m) == p * (m \div 1000) + (p * (m % 1000)) \div 1000

FP == 10

\* Date.now() of a present-day run: November 2025 is some 490 000 hours
\* after the epoch.
EpochHours == 490000

-----------------------------------------------------------------------------
(* Configuration *)

INITIAL_MEMECOINS == 1000
MIN_BET_AMOUNT == 10
MAX_BET_AMOUNT == 1000
PREDICTION_EXPIRY_HOURS == 24

PredictionTypes ==
    {"growth_rate", "milestone_reach", "ranking_position",
     "engagement_ratio", "virality_index"}

TimeframeHours(tf) ==
    CASE tf = "SHORT" -> 6
      [] tf = "MEDIUM" -> 12
      [] tf = "LONG" -> 24
      [] tf = "EXTENDED" -> 48

LEVELS == <<0, 100, 250, 500, 1000, 2000, 3500, 5000, 7500, 10000>>

\* calculateLevel: the highest level whose threshold the experience reaches,
\* level 1 when it reaches none.
calculateLevel(experience) ==
    LET reached == {i \in 1..Len(LEVELS) : experience >= LEVELS[i]}
    IN  IF reached = {} THEN 1
        ELSE CHOOSE i \in reached : \A j \in reached : j <= i

-----------------------------------------------------------------------------
(* Content items *)

\* RedditPost.created, fixed per post: p1 is two hours old when the model
\* starts, any other post thirty hours.
PostCreated(id) == IF id = "p1" THEN EpochHours - 2 ELSE EpochHours - 30

Snapshots == UNION {[S -> PostData] : S \in SUBSET PostIds}

RedditPost(id, data) ==
    [id |-> id, score |-> data.score, commentCount |-> data.commentCount,
     created |-> PostCreated(id), subreddit |-> "memes"]

\* array.find(p => p.id === postId)
HasPost(posts, id) == id \in DOMAIN posts

-----------------------------------------------------------------------------
(* The portfolio *)

NewPortfolio ==
    [memeCoins |-> INITIAL_MEMECOINS * FP,
     predictions |-> <<>>,
     achievements |-> {},
     level |-> 1,
     experience |-> 0,
     stakedCoins |-> 0,
     stakingRewards |-> 0,
     lastStakingClaim |-> EpochHours,
     tournamentPoints |-> 0]

\* what the user may enter on a post card: every prediction type and target
\* with the stakes of StakeSet, the stakes outside the bet bounds with one
\* type and target only (they are rejected before either is looked at)
Intents ==
    UNION {
        {[postId |-> id, predictionType |-> type, targetValue |-> target,
          timeframe |-> stake[2], betAmount |-> stake[1]] :
            id \in PostIds, target \in TargetSet(type),
            stake \in {st \in StakeSet :
                        st[1] >= MIN_BET_AMOUNT /\ st[1] <= MAX_BET_AMOUNT}} :
        type \in PredictionTypes}
    \cup
    {[postId |-> id, predictionType |-> "milestone_reach", targetValue |-> 50,
      timeframe |-> stake[2], betAmount |-> stake[1]] :
        id \in PostIds,
        stake \in {st \in StakeSet : st[1] < MIN_BET_AMOUNT \/ st[1] > MAX_BET_AMOUNT}}

\* (Date.now() - post.created * 1000) / (1000 * 60 * 60): the post's age in
\* hours as the source computes it.  post.created is already in milliseconds
\* (RedditAPI multiplies created_utc by 1000), so the result is negative.
PostAgeHours(post, t) == t - post.created * 1000

-----------------------------------------------------------------------------
(* Odds *)

OddsScale == 1000000        \* odds are kept in millionths

\* NaN, the result of 0 / 0 and of every computation on it
NaN == 0 - 1

\* PREDICTION_TYPES[key].baseOdds in tenths, 0 where the object has no
\* property key.  The keys of PREDICTION_TYPES are the upper-case names.
BaseOdds(key) ==
    CASE key = "GROWTH_RATE" -> 20
      [] key = "MILESTONE_REACH" -> 18
      [] key = "RANKING_POSITION" -> 30
      [] key = "ENGAGEMENT_RATIO" -> 25
      [] key = "VIRALITY_INDEX" -> 40
      [] OTHER -> 0

\* PREDICTION_TIMEFRAMES[timeframe]?.baseMultiplier || 1.0, in tenths
TimeframeMultiplier(timeframe) ==
    CASE timeframe = "SHORT" -> 15
      [] timeframe = "MEDIUM" -> 12
      [] timeframe = "LONG" -> 10
      [] timeframe = "EXTENDED" -> 8
      [] OTHER -> 10

\* SUBREDDIT_MULTIPLIERS[post.subreddit] || 1.0, in tenths
SubredditMultiplier(subreddit) ==
    CASE subreddit = "memes" -> 13
      [] subreddit = "programmerhumor" -> 14
      [] subreddit = "gaming" -> 12
      [] subreddit = "cats" -> 13
      [] subreddit = "askreddit" -> 15
      [] subreddit = "todayilearned" -> 14
      [] subreddit = "nextfuckinglevel" -> 16
      [] subreddit = "interestingasfuck" -> 15
      [] subreddit = "wtf" -> 12
      [] subreddit = "politics" -> 11
      [] subreddit = "funny" -> 12
      [] subreddit = "aww" -> 14
      [] subreddit = "news" -> 11
      [] OTHER -> 10

\* timeOfDay of analyzeMarketConditions; the hour of the day is taken from
\* the clock
TimeOfDay(t) ==
    LET currentTime == t % 24
    IN  IF currentTime >= 20 /\ currentTime <= 22 THEN "peak"
        ELSE IF currentTime >= 22 \/ currentTime <= 10 THEN "quiet"
        ELSE "normal"

\* calculateGrowthRate: upvotes per hour as <<numerator, denominator>>
calculateGrowthRate(post, t) ==
    LET postAge == PostAgeHours(post, t)
    IN  IF postAge <= 0 THEN <<0, 1>> ELSE <<post.score, postAge>>

\* calculateVolatilityFactor on the conditions of analyzeMarketConditions, in
\* thousandths
calculateVolatilityFactor(post, quote, t) ==
    LET postAge == PostAgeHours(post, t)
        currentRanking == IF quote.ranking = 0 THEN 50 ELSE quote.ranking
        timeOfDay == TimeOfDay(t)
        byAge == IF postAge <= 1 THEN 10
                 ELSE IF postAge <= 3 THEN 8
                 ELSE IF postAge <= 6 THEN 6
                 ELSE IF postAge <= 12 THEN 4
                 ELSE IF postAge <= 24 THEN 3
                 ELSE 2
        byRanking == IF currentRanking <= 5 THEN 9
                     ELSE IF currentRanking <= 20 THEN 7
                     ELSE IF currentRanking <= 50 THEN 5
                     ELSE 3
        byTime == CASE timeOfDay = "peak" -> 12
                    [] timeOfDay = "normal" -> 10
                    [] timeOfDay = "quiet" -> 8
    IN  byAge * byRanking * byTime

\* Math.max(lo, Math.min(hi, 1 + |a| / b)) in thousandths, for b >= 0, with
\* lo and hi in thousandths: x / 0 is Infinity for x > 0 and NaN for x = 0,
\* and Math.max and Math.min return NaN for NaN
ClampedDifficulty(lo, hi, a, b) ==
    IF b = 0 THEN (IF a = 0 THEN NaN ELSE hi)
    ELSE IF (b + Abs(a)) * 1000 >= hi * b THEN hi
    ELSE Max(lo, ((b + Abs(a)) * 1000) \div b)

\* calculateDifficultyMultiplier, in thousandths.  Its switch is over the
\* lower-case names.
calculateDifficultyMultiplier(predictionType, post, targetValue, t) ==
    CASE predictionType = "growth_rate" ->
            \* expectedGrowth = growthRate * 24 = 24 * g[1] / g[2]
            LET g == calculateGrowthRate(post, t)
            IN  ClampedDifficulty(500, 2000,
                                  targetValue * g[2] - 24 * g[1], 24 * g[1])
      [] predictionType = "milestone_reach" ->
            LET score == Max(1, post.score)
            IN  IF targetValue >= 6 * score THEN 3000
                ELSE Max(800, (targetValue * 1000) \div (2 * score))
      [] predictionType = "ranking_position" ->
            IF targetValue <= 5 THEN 2500
            ELSE IF targetValue <= 20 THEN 1800
            ELSE IF targetValue <= 50 THEN 1200
            ELSE 800
      [] predictionType = "engagement_ratio" ->
            \* currentRatio = commentCount / max(1, score)
            ClampedDifficulty(700, 2500,
                              targetValue * Max(1, post.score) - post.commentCount,
                              post.commentCount)
      [] predictionType = "virality_index" -> 2000
      [] OTHER -> 1000

\* calculateOdds with the final Math.max(1.1, Math.min(50.0, ...)) left out
calculateOdds_NoClamp(post, quote, predictionType, targetValue, timeframe, t) ==
    IF BaseOdds(predictionType) = 0 THEN 2 * OddsScale
    ELSE
        LET baseOdds ==
                BaseOdds(predictionType)
                * calculateVolatilityFactor(post, quote, t)
                * TimeframeMultiplier(timeframe)
                * SubredditMultiplier(post.subreddit)
            difficultyMultiplier ==
                calculateDifficultyMultiplier(predictionType, post, targetValue, t)
        IN  IF difficultyMultiplier = NaN THEN NaN
            ELSE ScaledProduct(difficultyMultiplier, baseOdds)

\* PredictionEngine.calculateOdds, in millionths (rounded down where the
\* product has more decimals); utils/helpers.calculateOdds hands its
\* arguments to it unchanged.
calculateOdds(post, quote, predictionType, targetValue, timeframe, t) ==
    IF BaseOdds(predictionType) = 0 THEN 2 * OddsScale
    ELSE
        LET baseOdds ==
                BaseOdds(predictionType)
                * calculateVolatilityFactor(post, quote, t)
                * TimeframeMultiplier(timeframe)
                * SubredditMultiplier(post.subreddit)
            difficultyMultiplier ==
                calculateDifficultyMultiplier(predictionType, post, targetValue, t)
        IN  IF difficultyMultiplier = NaN THEN NaN
            ELSE Max(11 * (OddsScale \div 10),
                     Min(50 * OddsScale,
                         ScaledProduct(difficultyMultiplier, baseOdds)))

-----------------------------------------------------------------------------
(* Bet placement *)

\* baselineValue, a quotient kept as <<numerator, denominator>>
Baseline(predictionType, post, t) ==
    CASE predictionType = "growth_rate" -> <<post.score, 1>>
      [] predictionType = "milestone_reach" -> <<post.score, 1>>
      [] predictionType = "engagement_ratio" ->
            <<post.commentCount, Max(1, post.score)>>
      [] predictionType = "virality_index" ->
            <<post.score + post.commentCount * 2, Max(1, PostAgeHours(post, t))>>
      [] OTHER -> <<post.score, 1>>

\* updatedPortfolio of MarketView.handlePlaceBet: the portfolio with the bet
\* placed.  d is the prediction data handed over by the post card, id the
\* fresh prediction id.
updatedPortfolio(pf, d, id, t) ==
    LET prediction ==
            [id |-> id,
             postId |-> d.postId,
             predictionType |-> d.predictionType,
             targetValue |-> d.targetValue,
             timeframe |-> d.timeframe,
             betAmount |-> d.betAmount,
             odds |-> d.odds,
             baselineValue |-> d.baselineValue,
             status |-> "active",
             created |-> t,
             resolved |-> <<>>]
        experienceGained == d.betAmount \div 20
        newExperience == pf.experience + experienceGained
    IN  [pf EXCEPT
            !.memeCoins = pf.memeCoins - d.betAmount * FP,
            !.predictions = Append(pf.predictions, prediction),
            !.experience = newExperience,
            !.level = calculateLevel(newExperience)]

\* handlePlaceBet with the debit left out
handlePlaceBet_NoDebit(pf, posts, d, id, t) ==
    IF d.betAmount * FP > pf.memeCoins THEN pf
    ELSE IF ~HasPost(posts, d.postId) THEN pf
    ELSE [updatedPortfolio(pf, d, id, t) EXCEPT !.memeCoins = pf.memeCoins]

\* MarketView.handlePlaceBet: the ledger-mutating bet operation
handlePlaceBet(pf, posts, d, id, t) ==
    IF d.betAmount * FP > pf.memeCoins THEN pf
    ELSE IF ~HasPost(posts, d.postId) THEN pf
    ELSE updatedPortfolio(pf, d, id, t)

\* predictionData as PostCard.handleBet builds it; the card's quote is the
\* one it was rendered with
predictionData(posts, quotes, intent, t) ==
    LET post == RedditPost(intent.postId, posts[intent.postId])
        odds == calculateOdds(post, quotes[intent.postId], intent.predictionType,
                              intent.targetValue, intent.timeframe, t)
    IN  [postId |-> intent.postId,
         predictionType |-> intent.predictionType,
         targetValue |-> intent.targetValue,
         timeframe |-> intent.timeframe,
         betAmount |-> intent.betAmount,
         \* odds in FP units
         odds |-> odds \div (OddsScale \div FP),
         baselineValue |-> Baseline(intent.predictionType, post, t)]

\* handleBet with the test against MIN_BET_AMOUNT left out
handleBet_NoMinimum(pf, posts, quotes, intent, id, t) ==
    IF intent.postId \notin DOMAIN quotes THEN pf
    ELSE IF intent.betAmount > MAX_BET_AMOUNT THEN pf
    ELSE IF intent.betAmount * FP > pf.memeCoins THEN pf
    ELSE handlePlaceBet(pf, posts, predictionData(posts, quotes, intent, t), id, t)

\* handleBet with the test against the balance left out, the bet going
\* straight to the portfolio update
handleBet_NoBalanceTest(pf, posts, quotes, intent, id, t) ==
    IF intent.postId \notin DOMAIN quotes THEN pf
    ELSE IF intent.betAmount < MIN_BET_AMOUNT THEN pf
    ELSE IF intent.betAmount > MAX_BET_AMOUNT THEN pf
    ELSE updatedPortfolio(pf, predictionData(posts, quotes, intent, t), id, t)

\* PostCard.handleBet: the only caller of handlePlaceBet.  quotes is the
\* market data the card was rendered with.
handleBet(pf, posts, quotes, intent, id, t) ==
    IF intent.postId \notin DOMAIN quotes THEN pf
    ELSE IF intent.betAmount < MIN_BET_AMOUNT THEN pf
    ELSE IF intent.betAmount > MAX_BET_AMOUNT THEN pf
    ELSE IF intent.betAmount * FP > pf.memeCoins THEN pf
    ELSE handlePlaceBet(pf, posts, predictionData(posts, quotes, intent, t), id, t)

-----------------------------------------------------------------------------
(* Wager resolution *)

\* |actualValue - target| <= target * (pct / 100), for actualValue = num / den
\* with den > 0, cleared of the division
WithinTolerance(num, den, target, pct) ==
    Abs(num - target * den) * 100 <= target * pct * den

\* The win condition MarketEngine.resolvePredictions evaluates for one active
\* prediction; draw is the value of floor(random * 50) + 1.
IsWon(prediction, post, t, draw) ==
    LET postAge == PostAgeHours(post, t)
    IN  CASE prediction.predictionType = "growth_rate" ->
                WithinTolerance(post.score, Max(1, postAge), prediction.targetValue, 10)
          [] prediction.predictionType = "milestone_reach" ->
                post.score >= prediction.targetValue
          [] prediction.predictionType = "ranking_position" ->
                draw = prediction.targetValue
          [] prediction.predictionType = "engagement_ratio" ->
                WithinTolerance(post.commentCount, Max(1, post.score),
                                prediction.targetValue, 15)
          [] prediction.predictionType = "virality_index" ->
                WithinTolerance(post.score + post.commentCount * 2, Max(1, postAge),
                                prediction.targetValue, 20)
          [] OTHER -> FALSE

\* postAgeMs > maxPredictionAge, with postAgeMs = Date.now() - post.created
IsExpired(post, t) == t - post.created > PREDICTION_EXPIRY_HOURS

\* ResolveOne with the test for a terminal status left out
ResolveOne_NoStatusTest(prediction, posts, t, draw) ==
    IF ~HasPost(posts, prediction.postId) THEN prediction
    ELSE
        LET post == RedditPost(prediction.postId, posts[prediction.postId])
        IN  IF IsWon(prediction, post, t, draw)
            THEN [prediction EXCEPT !.status = "won", !.resolved = <<t>>]
            ELSE IF IsExpired(post, t)
            THEN [prediction EXCEPT !.status = "lost", !.resolved = <<t>>]
            ELSE prediction

\* The body of the map over portfolio.predictions
ResolveOne(prediction, posts, t, draw) ==
    IF prediction.status # "active" THEN prediction
    ELSE IF ~HasPost(posts, prediction.postId) THEN prediction
    ELSE
        LET post == RedditPost(prediction.postId, posts[prediction.postId])
        IN  IF IsWon(prediction, post, t, draw)
            THEN [prediction EXCEPT !.status = "won", !.resolved = <<t>>]
            ELSE IF IsExpired(post, t)
            THEN [prediction EXCEPT !.status = "lost", !.resolved = <<t>>]
            ELSE prediction

\* The condition under which the forEach over updatedPredictions credits a
\* prediction: status === 'won' && 'resolved' in prediction
IsCredited(prediction) ==
    prediction.status = "won" /\ "resolved" \in DOMAIN prediction

\* the forEach loop's accumulation: the sum of values[i], values[i + 1], ...
RECURSIVE SumOver(_, _)
SumOver(values, i) ==
    IF i > Len(values) THEN 0 ELSE values[i] + SumOver(values, i + 1)

\* winnings = betAmount * odds, in FP units
Winnings(prediction) ==
    IF IsCredited(prediction) THEN prediction.betAmount * prediction.odds ELSE 0

\* Math.floor(winnings * 0.1)
WinExperience(prediction) ==
    IF IsCredited(prediction)
    THEN (prediction.betAmount * prediction.odds) \div (10 * FP)
    ELSE 0

\* MarketEngine.resolvePredictions; draws[i] is the random ranking drawn for
\* the i-th prediction.
resolvePredictions(pf, posts, t, draws) ==
    LET updatedPredictions ==
            [i \in 1..Len(pf.predictions) |->
                ResolveOne(pf.predictions[i], posts, t, draws[i])]
        memeCoins ==
            pf.memeCoins
            + SumOver([i \in 1..Len(updatedPredictions) |->
                        Winnings(updatedPredictions[i])], 1)
        experience ==
            pf.experience
            + SumOver([i \in 1..Len(updatedPredictions) |->
                        WinExperience(updatedPredictions[i])], 1)
    IN  [pf EXCEPT
            !.predictions = updatedPredictions,
            !.memeCoins = memeCoins,
            !.experience = experience,
            !.level = calculateLevel(experience)]

-----------------------------------------------------------------------------
(* Staking *)

\* STAKING_TIERS: minAmount and maxAmount in coins, apr in tenths of a
\* percent; the last tier's maxAmount is Infinity
STAKING_TIERS ==
    <<[minAmount |-> 0, maxAmount |-> 999, apr |-> 50, open |-> FALSE],
      [minAmount |-> 1000, maxAmount |-> 4999, apr |-> 85, open |-> FALSE],
      [minAmount |-> 5000, maxAmount |-> 9999, apr |-> 120, open |-> FALSE],
      [minAmount |-> 10000, maxAmount |-> 10000, apr |-> 150, open |-> TRUE]>>

\* getStakingTier for an amount in FP units: the first tier whose range
\* holds the amount, the first tier when none does
getStakingTier(amount) ==
    LET fits == {i \in 1..Len(STAKING_TIERS) :
                    /\ amount >= STAKING_TIERS[i].minAmount * FP
                    /\ (STAKING_TIERS[i].open
                            \/ amount <= STAKING_TIERS[i].maxAmount * FP)}
    IN  IF fits = {} THEN STAKING_TIERS[1]
        ELSE STAKING_TIERS[CHOOSE i \in fits : \A j \in fits : i <= j]

\* hours of a year times 1000: the divisor that turns coins * apr (tenths of
\* a percent) * hours into coins
YearUnits == 8760000

\* calculateStakingRewards, in whole coins:
\* max(0, floor(stakedCoins * apr / 100 / 365 * hours / 24))
calculateStakingRewards(pf, t) ==
    LET tier == getStakingTier(pf.stakedCoins)
        hoursSinceLastClaim == t - pf.lastStakingClaim
        \* reward * YearUnits * FP
        scaled == pf.stakedCoins * tier.apr * hoursSinceLastClaim
    IN  IF scaled < 0 THEN 0 ELSE scaled \div (YearUnits * FP)

\* claimRewards with lastStakingClaim left as it was
claimRewards_NoReset(pf, t) ==
    LET rewards == calculateStakingRewards(pf, t)
    IN  [pf EXCEPT
            !.memeCoins = pf.memeCoins + rewards * FP,
            !.stakingRewards = pf.stakingRewards + rewards * FP]

\* StakingService.claimRewards
claimRewards(pf, t) ==
    LET rewards == calculateStakingRewards(pf, t)
    IN  [pf EXCEPT
            !.memeCoins = pf.memeCoins + rewards * FP,
            !.stakingRewards = pf.stakingRewards + rewards * FP,
            !.lastStakingClaim = t]

\* StakingService.stakeCoins; amount in FP units.  A throw leaves the
\* portfolio as it was.
stakeCoins(pf, amount, t) ==
    IF amount > pf.memeCoins THEN pf
    ELSE [pf EXCEPT
            !.memeCoins = pf.memeCoins - amount,
            !.stakedCoins = pf.stakedCoins + amount,
            !.lastStakingClaim = t]

\* unstakeCoins without the claim of the pending reward
unstakeCoins_NoClaim(pf, amount, t) ==
    IF amount > pf.stakedCoins THEN pf
    ELSE [pf EXCEPT
            !.stakedCoins = pf.stakedCoins - amount,
            !.memeCoins = pf.memeCoins + amount,
            !.lastStakingClaim = t]

\* StakingService.unstakeCoins; amount in FP units
unstakeCoins(pf, amount, t) ==
    IF amount > pf.stakedCoins THEN pf
    ELSE
        LET claimed == claimRewards(pf, t)
        IN  [claimed EXCEPT
                !.stakedCoins = claimed.stakedCoins - amount,
                !.memeCoins = claimed.memeCoins + amount]

-----------------------------------------------------------------------------
(* Tournaments *)

\* TOURNAMENT_CONFIG: fees in coins, BONUS_MULTIPLIER in tenths,
\* PRIZE_DISTRIBUTION in percent
TOURNAMENT_CONFIG ==
    [ENTRY_FEE |-> 100,
     MAX_PARTICIPANTS |-> 100,
     PRIZE_DISTRIBUTION |-> <<50, 25, 15, 10>>,
     POINTS_PER_WIN |-> 10,
     POINTS_PER_LOSS |-> 0 - 2,
     BONUS_MULTIPLIER |-> 15]

\* TournamentService.createTournament.  Name, description, dates and rules
\* are display data that no operation reads; prizePool and entryFee are in
\* whole coins.
createTournament ==
    [status |-> "upcoming",
     prizePool |-> 0,
     entryFee |-> TOURNAMENT_CONFIG.ENTRY_FEE,
     maxParticipants |-> TOURNAMENT_CONFIG.MAX_PARTICIPANTS,
     currentParticipants |-> 0,
     leaderboard |-> <<>>]

\* the TournamentParticipant joinTournament builds (username and winRate are
\* display data)
NewParticipant(userId, rank) ==
    [userId |-> userId, points |-> 0, rank |-> rank, predictions |-> 0]

\* tournament.leaderboard.find(p => p.userId === userId): the position of
\* the first such participant, 0 when there is none
FindParticipant(leaderboard, userId) ==
    LET hits == {i \in DOMAIN leaderboard : leaderboard[i].userId = userId}
    IN  IF hits = {} THEN 0 ELSE CHOOSE i \in hits : \A j \in hits : i <= j

\* Entered with the increment of currentParticipants left out
Entered_NoCount(t, pf) ==
    [success |-> TRUE,
     error |-> "",
     tournament |->
        [t EXCEPT
            !.leaderboard = Append(@, NewParticipant(pf.userId, Len(@) + 1)),
            !.prizePool = @ + t.entryFee],
     updatedPortfolio |->
        [pf EXCEPT
            !.memeCoins = @ - t.entryFee * FP,
            !.currentTournament = "t1",
            !.tournamentPoints = 0]]

\* the tournament and portfolio after the three updates of a join
Entered(t, pf) ==
    [success |-> TRUE,
     error |-> "",
     tournament |->
        [t EXCEPT
            !.leaderboard = Append(@, NewParticipant(pf.userId, Len(@) + 1)),
            !.currentParticipants = @ + 1,
            !.prizePool = @ + t.entryFee],
     updatedPortfolio |->
        [pf EXCEPT
            !.memeCoins = @ - t.entryFee * FP,
            !.currentTournament = "t1",
            !.tournamentPoints = 0]]

\* a failed join: the result carries neither tournament nor portfolio (the
\* fields hold the untouched arguments)
Refused(t, pf, error) ==
    [success |-> FALSE, error |-> error, tournament |-> t,
     updatedPortfolio |-> pf]

\* joinTournament without the test for a participant of the same userId
joinTournament_NoDuplicateTest(t, pf) ==
    IF t.status # "upcoming"
    THEN Refused(t, pf, "Tournament has already started")
    ELSE IF t.currentParticipants >= t.maxParticipants
    THEN Refused(t, pf, "Tournament is full")
    ELSE IF pf.memeCoins < t.entryFee * FP
    THEN Refused(t, pf, "Insufficient MemeCoins for entry fee")
    ELSE Entered(t, pf)

\* TournamentService.joinTournament on a tournament that was found
joinTournament(t, pf) ==
    IF t.status # "upcoming"
    THEN Refused(t, pf, "Tournament has already started")
    ELSE IF t.currentParticipants >= t.maxParticipants
    THEN Refused(t, pf, "Tournament is full")
    ELSE IF pf.memeCoins < t.entryFee * FP
    THEN Refused(t, pf, "Insufficient MemeCoins for entry fee")
    ELSE IF FindParticipant(t.leaderboard, pf.userId) # 0
    THEN Refused(t, pf, "Already participating in this tournament")
    ELSE Entered(t, pf)

\* leaderboard.sort((a, b) => b.points - a.points): a stable sort, so the
\* participants of the highest points come first in their old order, then
\* those of the next points, and so on
RECURSIVE SortGroups(_, _)
SortGroups(leaderboard, values) ==
    IF values = {} THEN <<>>
    ELSE LET top == CHOOSE v \in values : \A w \in values : v >= w
         IN  SelectSeq(leaderboard, LAMBDA p : p.points = top)
                \o SortGroups(leaderboard, values \ {top})

SortByPoints(leaderboard) ==
    SortGroups(leaderboard, {leaderboard[i].points : i \in DOMAIN leaderboard})

\* leaderboard.forEach((p, index) => p.rank = index + 1)
Reranked(leaderboard) ==
    [i \in DOMAIN leaderboard |-> [leaderboard[i] EXCEPT !.rank = i]]

\* Math.floor(basePoints * bonusMultiplier)
pointsToAdd(won, consecutiveWins) ==
    LET basePoints == IF won THEN TOURNAMENT_CONFIG.POINTS_PER_WIN
                      ELSE TOURNAMENT_CONFIG.POINTS_PER_LOSS
        bonusMultiplier == IF won /\ consecutiveWins > 1
                           THEN TOURNAMENT_CONFIG.BONUS_MULTIPLIER ELSE 10
    IN  (basePoints * bonusMultiplier) \div 10

\* the participant's points and bet count after a scored bet
Scored(t, userId, won, consecutiveWins) ==
    LET i == FindParticipant(t.leaderboard, userId)
    IN  [t.leaderboard EXCEPT
            ![i].points = @ + pointsToAdd(won, consecutiveWins),
            ![i].predictions = @ + 1]

\* updateTournamentPoints without the sort and the new ranks
updateTournamentPoints_NoSort(t, userId, won, consecutiveWins) ==
    IF t.status # "active" THEN t
    ELSE IF FindParticipant(t.leaderboard, userId) = 0 THEN t
    ELSE [t EXCEPT !.leaderboard = Scored(t, userId, won, consecutiveWins)]

\* TournamentService.updateTournamentPoints on a tournament that was found
updateTournamentPoints(t, userId, won, consecutiveWins) ==
    IF t.status # "active" THEN t
    ELSE IF FindParticipant(t.leaderboard, userId) = 0 THEN t
    ELSE [t EXCEPT
            !.leaderboard =
                Reranked(SortByPoints(Scored(t, userId, won, consecutiveWins)))]

\* startTournament without the test of the status
startTournament_NoStatusTest(t) ==
    [ok |-> TRUE, tournament |-> [t EXCEPT !.status = "active"]]

\* TournamentService.startTournament on a tournament that was found
startTournament(t) ==
    IF t.status # "upcoming" THEN [ok |-> FALSE, tournament |-> t]
    ELSE [ok |-> TRUE, tournament |-> [t EXCEPT !.status = "active"]]

\* TournamentService.endTournament on a tournament that was found; prizes in
\* whole coins
endTournament(t) ==
    IF t.status # "active"
    THEN [tournament |-> t, winners |-> <<>>, prizes |-> <<>>]
    ELSE
        LET sorted == SortByPoints(t.leaderboard)
            ratios == TOURNAMENT_CONFIG.PRIZE_DISTRIBUTION
            prizes == [i \in DOMAIN ratios |-> (t.prizePool * ratios[i]) \div 100]
        IN  [tournament |-> [t EXCEPT !.status = "completed",
                                      !.leaderboard = sorted],
             winners |-> SubSeq(sorted, 1, Min(Len(prizes), Len(sorted))),
             prizes |-> prizes]

-----------------------------------------------------------------------------
(* Analytics *)

\* predictions.sort((a, b) => b.created - a.created): a stable sort, the
\* latest creation time first
RECURSIVE SortByCreated(_, _)
SortByCreated(predictions, times) ==
    IF times = {} THEN <<>>
    ELSE LET latest == CHOOSE v \in times : \A w \in times : v >= w
         IN  SelectSeq(predictions, LAMBDA p : p.created = latest)
                \o SortByCreated(predictions, times \ {latest})

\* the counters of calculateStreaks after one more prediction of the loop
StreakStep(acc, prediction) ==
    IF prediction.status = "won"
    THEN [acc EXCEPT
            !.tempWinStreak = @ + 1,
            !.tempLossStreak = 0,
            !.bestWinStreak = Max(@, acc.tempWinStreak + 1)]
    ELSE [acc EXCEPT
            !.tempLossStreak = @ + 1,
            !.tempWinStreak = 0,
            !.bestLossStreak = Max(@, acc.tempLossStreak + 1)]

\* the counters after the first n predictions of the loop
RECURSIVE StreakScan(_, _)
StreakScan(completedPredictions, n) ==
    IF n = 0
    THEN [tempWinStreak |-> 0, tempLossStreak |-> 0,
          bestWinStreak |-> 0, bestLossStreak |-> 0]
    ELSE StreakStep(StreakScan(completedPredictions, n - 1),
                    completedPredictions[n])

\* AnalyticsService.calculateStreaks on portfolio.predictions
calculateStreaks(predictions) ==
    LET resolved == SelectSeq(predictions,
                        LAMBDA p : p.status = "won" \/ p.status = "lost")
        completedPredictions ==
            SortByCreated(resolved, {resolved[i].created : i \in DOMAIN resolved})
        acc == StreakScan(completedPredictions, Len(completedPredictions))
        wonLast == /\ Len(completedPredictions) > 0
                   /\ completedPredictions[1].status = "won"
        lostLast == /\ Len(completedPredictions) > 0
                    /\ completedPredictions[1].status # "won"
    IN  [currentWinStreak |-> IF wonLast THEN acc.tempWinStreak ELSE 0,
         currentLossStreak |-> IF lostLast THEN acc.tempLossStreak ELSE 0,
         bestWinStreak |-> acc.bestWinStreak,
         bestLossStreak |-> acc.bestLossStreak,
         totalPredictions |-> Len(completedPredictions),
         totalWins |-> Len(SelectSeq(completedPredictions,
                                     LAMBDA p : p.status = "won")),
         totalLosses |-> Len(SelectSeq(completedPredictions,
                                       LAMBDA p : p.status = "lost"))]

\* predictions.sort((a, b) => a.created - b.created): a stable sort, the
\* earliest creation time first
RECURSIVE SortByCreatedAscending(_, _)
SortByCreatedAscending(predictions, times) ==
    IF times = {} THEN <<>>
    ELSE LET earliest == CHOOSE v \in times : \A w \in times : v <= w
         IN  SelectSeq(predictions, LAMBDA p : p.created = earliest)
                \o SortByCreatedAscending(predictions, times \ {earliest})

\* AnalyticsService.getBettingFrequency: its first statement sorts
\* portfolio.predictions itself (Array.prototype.sort sorts in place), the
\* rest reads the sorted array.  stored is portfolio.predictions after the
\* call; the figures returned are display data.
getBettingFrequency(predictions) ==
    LET sorted == SortByCreatedAscending(predictions,
                        {predictions[i].created : i \in DOMAIN predictions})
    IN  [stored |-> sorted,
         enough |-> Len(sorted) >= 2]

\* the analytics queries over a portfolio
AnalyticsQueries ==
    {"calculateStreaks", "analyzeSubreddits", "calculateRiskMetrics",
     "getBettingFrequency", "getFavoriteSubreddits"}

\* portfolio.predictions after a query.  calculateStreaks and
\* calculateRiskMetrics work on the copies that filter returns,
\* analyzeSubreddits and getFavoriteSubreddits only read in a forEach.
StoredAfter(query, predictions) ==
    IF query = "getBettingFrequency"
    THEN getBettingFrequency(predictions).stored
    ELSE predictions

-----------------------------------------------------------------------------
(* The market simulator *)

PriceScale == 10000
MIN_PRICE == 100                  \* 0.01, in PriceScale units
CentUnits == 100                  \* one cent, in PriceScale units
SECTOR_DURATION == 2880           \* 24 hours, in tick periods
SECTOR_DURATION_HOURS == 2880     \* 24 hours, in tick periods
MAX_PRICE_CHANGE == 6000000       \* 0.5, in ChangeScale units
ChangeScale == 12000000

SectorOrder == <<"cats", "politics", "gaming", "food", "wtf">>

\* MarketSector.multiplier, in tenths
SectorMultiplier(id) ==
    CASE id = "cats" -> 12
      [] id = "politics" -> 15
      [] id = "gaming" -> 13
      [] id = "food" -> 11
      [] id = "wtf" -> 18

\* floor(a / b + 1/2) for b > 0: Math.round of the quotient a / b
RoundDiv(a, b) == (2 * a + b) \div (2 * b)

\* Math.max(0.01, Math.round(finalPrice * 100) / 100), the last line of
\* calculateInitialPrice; raw is finalPrice in PriceScale units.
calculateInitialPrice(raw) ==
    Max(MIN_PRICE, RoundDiv(raw, CentUnits) * CentUnits)

\* initializePostMarket's record; r is the draw for the volume.  ranking 0
\* stands for the absent field.
initializePostMarket(id, raw, r, t) ==
    LET initialPrice == calculateInitialPrice(raw)
    IN  [postId |-> id,
         currentPrice |-> initialPrice,
         previousPrice |-> initialPrice,
         volume |-> (r * 1000) \div 4 + 100,
         changePercent |-> 0,
         lastUpdated |-> t,
         trend |-> "stable",
         ranking |-> 0]

\* calculateMarketVolatility, in units of 1 / 1 200 000:
\* max(0.005, 0.02 + (r - 0.5) * 0.02) * multiplier * 1.0
calculateMarketVolatility(r, sector) ==
    Max(5, 20 + (r - 2) * 5) * SectorMultiplier(sector) * 120

\* sectorAdjustedChange clamped to +-MAX_PRICE_CHANGE_PERCENT, in ChangeScale
\* units; dt is the time since lastUpdated in tick periods, rv, rf and rb the
\* draws for volatility, random factor and trending bias.
PriceChange(dt, rv, rf, rb, sector) ==
    LET timeMultiplier60 == Min(90, dt)                  \* min(1.5, minutes / 30) * 60
        randomFactor == (rf - 2) * 75 * timeMultiplier60 * 2
        trendingBias == rb * 25 * timeMultiplier60
        totalChange == calculateMarketVolatility(rv, sector) + randomFactor + trendingBias
        sectorAdjustedChange == totalChange * SectorMultiplier(sector)
    IN  Max(0 - MAX_PRICE_CHANGE, Min(MAX_PRICE_CHANGE, sectorAdjustedChange))

\* updatePostPrice; draws = <<rv, rf, rb, volume draw, ranking draw>>
updatePostPrice(data, t, draws, sector) ==
    LET previousPrice == data.currentPrice
        priceChange == PriceChange(t - data.lastUpdated, draws[1], draws[2], draws[3], sector)
        factor == ChangeScale + priceChange
        \* previousPrice * (1 + priceChange) < MIN_PRICE
        floored == ScaledProduct(previousPrice, factor) < (MIN_PRICE * ChangeScale) \div 1000
        \* Math.round(newPrice * 100), in cents
        cents ==
            IF floored THEN MIN_PRICE \div CentUnits
            ELSE (ScaledProduct(previousPrice, factor) + (ChangeScale * CentUnits) \div 2000)
                    \div ((ChangeScale * CentUnits) \div 1000)
        \* the sign of newPrice - previousPrice
        direction ==
            IF floored THEN MIN_PRICE - previousPrice ELSE priceChange
    IN  [data EXCEPT
            !.currentPrice = cents * CentUnits,
            !.previousPrice = previousPrice,
            !.changePercent =
                IF floored
                THEN RoundDiv((MIN_PRICE - previousPrice) * 10000, previousPrice)
                ELSE RoundDiv(priceChange, ChangeScale \div 10000),
            !.trend = IF direction > 0 THEN "up"
                      ELSE IF direction < 0 THEN "down" ELSE "stable",
            !.lastUpdated = t,
            !.volume = data.volume + (draws[4] * 30) \div 4 + 5,
            !.ranking = (draws[5] * 100) \div 4 + 1]

\* startMarketUpdates: setInterval adds one timer to the live ones; the
\* constructor of the singleton is its only caller
startMarketUpdates(timers) == timers \cup {Cardinality(timers) + 1}

\* destroy with the clearInterval left out
destroy_NoClear(timers) == timers

\* MarketEngine.destroy: clearInterval(this.updateInterval)
destroy(timers) == {}

\* ShockedQuote with Math.max(0.01, ...) left out
ShockedQuote_NoFloor(data, eventType, t) ==
    LET newPrice ==
            IF eventType = "crash"
            THEN RoundDiv(data.currentPrice * 7, 10)
            ELSE RoundDiv(data.currentPrice * 12, 10)
    IN  [data EXCEPT
            !.currentPrice = newPrice,
            !.previousPrice = data.currentPrice,
            !.changePercent =
                RoundDiv((newPrice - data.currentPrice) * 10000, data.currentPrice),
            !.trend = IF newPrice > data.currentPrice THEN "up" ELSE "down",
            !.lastUpdated = t]

\* The body of triggerMarketEvent's loop for one quote.  The program keeps the
\* product unrounded; it is exact here up to MaxShockRun events after a tick
\* and rounded to a PriceScale unit beyond.
ShockedQuote(data, eventType, t) ==
    LET newPrice ==
            Max(MIN_PRICE,
                IF eventType = "crash"
                THEN RoundDiv(data.currentPrice * 7, 10)
                ELSE RoundDiv(data.currentPrice * 12, 10))
    IN  [data EXCEPT
            !.currentPrice = newPrice,
            !.previousPrice = data.currentPrice,
            !.changePercent =
                RoundDiv((newPrice - data.currentPrice) * 10000, data.currentPrice),
            !.trend = IF newPrice > data.currentPrice THEN "up" ELSE "down",
            !.lastUpdated = t]

-----------------------------------------------------------------------------
(* The ledger as a state machine *)

\* The market engine after construction (initializeSectors): no quote yet,
\* the cats sector active.
EngineInit ==
    /\ sectors = [id \in {SectorOrder[i] : i \in 1..Len(SectorOrder)} |->
                    IF id = "cats" THEN SECTOR_DURATION ELSE 0]
    /\ currentSector = "cats"
    /\ mclock = 0
    /\ ticks = 0
    /\ shocks = 0
    /\ updateInterval = [timers |-> startMarketUpdates({}), destroyed |-> FALSE]
    /\ rotations = [count |-> 0, from |-> "cats", before |-> 0, at |-> 0]

\* The application after mount: a new portfolio (App.tsx), no posts fetched
\* yet.
AppInit ==
    /\ now = EpochHours
    /\ trendingPosts = <<>>
    /\ portfolio = NewPortfolio
    /\ nextPredId = 1
    /\ lastOp = [op |-> "none", betAmount |-> 0]
    /\ prev = NewPortfolio
    /\ resolves = 0
    /\ mounted = [userPortfolio |-> NewPortfolio, awaiting |-> 0,
                  lastDailyReward |-> 0]

\* the portfolio a user brings to the tournament service
Entrant(userId) ==
    [userId |-> userId,
     memeCoins |-> IF userId = "u3" THEN 50 * FP ELSE INITIAL_MEMECOINS * FP,
     currentTournament |-> "",
     tournamentPoints |-> 0]

\* the record of calls before the tournament service has been called
NoCall(t) ==
    [op |-> "none", userId |-> "", won |-> FALSE, consecutiveWins |-> 0,
     success |-> FALSE, error |-> "", portfolio |-> Entrant(""),
     updatedPortfolio |-> Entrant(""), before |-> t, winners |-> <<>>,
     prizes |-> <<>>, scores |-> 0]

\* No calculation has been asked for yet.
CalculatorInit ==
    /\ oddsCall = [predictionType |-> "none", odds |-> 0]
    /\ accrued = 0
    /\ streakCall = [predictions |-> <<>>, called |-> FALSE]
    /\ analyticsCall = [query |-> "none", predictions |-> <<>>, stored |-> <<>>]

\* No service has been called yet.
ServiceInit ==
    /\ CalculatorInit
    /\ tournament = createTournament
    /\ players = [u \in Users |-> Entrant(u)]
    /\ tcall = NoCall(createTournament)

\* The ledger is studied with a quote present for every post.
LedgerInit ==
    /\ AppInit
    /\ EngineInit
    /\ ServiceInit
    /\ marketData = [id \in PostIds |-> initializePostMarket(id, PriceScale, 0, 0)]

\* Time passes.
Advance(d) ==
    /\ now + d <= EpochHours + MaxClock
    /\ now' = now + d
    /\ UNCHANGED <<trendingPosts, portfolio, nextPredId, lastOp, prev, resolves, mounted>>
    /\ UNCHANGED marketVars
    /\ UNCHANGED serviceVars

\* The content provider returns a list of posts, which becomes
\* gameState.trendingPosts.
Fetch(posts) ==
    /\ posts # trendingPosts
    /\ trendingPosts' = posts
    /\ UNCHANGED <<now, portfolio, nextPredId, lastOp, prev, resolves, mounted>>
    /\ UNCHANGED marketVars
    /\ UNCHANGED serviceVars

\* The user presses "Place Bet" on the card of a trending post.
PlaceBet(intent) ==
    /\ intent.postId \in DOMAIN trendingPosts
    /\ LET result == handleBet(portfolio, trendingPosts, marketData, intent, nextPredId, now)
       IN  /\ result # portfolio => Len(portfolio.predictions) < MaxPredictions
           /\ portfolio' = result
           /\ nextPredId' = IF result # portfolio THEN nextPredId + 1 ELSE nextPredId
    /\ lastOp' = [op |-> "placeBet", betAmount |-> intent.betAmount]
    /\ prev' = portfolio
    /\ UNCHANGED <<now, trendingPosts, resolves, mounted>>
    /\ UNCHANGED marketVars
    /\ UNCHANGED serviceVars

\* marketEngine.resolvePredictions(portfolio, posts) with the posts last fetched
ResolveAll(draws) ==
    /\ resolves < MaxResolves
    /\ portfolio' = resolvePredictions(portfolio, trendingPosts, now, draws)
    /\ resolves' = resolves + 1
    /\ lastOp' = [op |-> "resolveAll", betAmount |-> 0]
    /\ prev' = portfolio
    /\ UNCHANGED <<now, trendingPosts, nextPredId, mounted>>
    /\ UNCHANGED marketVars
    /\ UNCHANGED serviceVars

LedgerNext ==
    \/ \E d \in AdvanceSteps : Advance(d)
    \/ \E posts \in Snapshots : Fetch(posts)
    \/ \E intent \in Intents : PlaceBet(intent)
    \/ \E draws \in [1..Len(portfolio.predictions) -> RankingDraws] : ResolveAll(draws)

Spec == LedgerInit /\ [][LedgerNext]_vars

-----------------------------------------------------------------------------
(* The initialisation of the market at mount *)

\* GAME_CONFIG rewards, in coins
DAILY_REWARD == 50
ACHIEVEMENT_REWARD == 100
LEVEL_UP_BONUS == 25
WINNING_STREAK_BONUS == 10
PERFECT_PREDICTION_BONUS == 50
HIGH_ROLLER_THRESHOLD == 1000
MARKET_CRASH_SURVIVOR_THRESHOLD == 5

\* new Date().toDateString(): the day the hour t falls in
Today(t) == t \div 24

\* checkDailyReward; last is localStorage's lastDailyReward entry, 0 when
\* there is none.  An eligible call stores today's date in the entry.
checkDailyReward(last, t) ==
    IF last = Today(t) THEN [eligible |-> FALSE, reward |-> 0]
    ELSE [eligible |-> TRUE, reward |-> DAILY_REWARD]

\* checkLevelUpBonus
checkLevelUpBonus(oldLevel, newLevel) ==
    IF newLevel > oldLevel THEN (newLevel - oldLevel) * LEVEL_UP_BONUS ELSE 0

\* checkStreakBonus
checkStreakBonus(currentStreak) ==
    IF currentStreak >= 5 /\ currentStreak % 5 = 0
    THEN (currentStreak \div 5) * WINNING_STREAK_BONUS
    ELSE 0

\* predictions.filter(p => p.status === 'won').length
WonCount(predictions) ==
    Cardinality({i \in 1..Len(predictions) : predictions[i].status = "won"})

\* checkPerfectPredictionBonus: the last 10 predictions are all won
checkPerfectPredictionBonus(predictions) ==
    LET recentPredictions ==
            IF Len(predictions) <= 10 THEN predictions
            ELSE SubSeq(predictions, Len(predictions) - 9, Len(predictions))
    IN  IF WonCount(recentPredictions) >= 10 THEN PERFECT_PREDICTION_BONUS ELSE 0

\* maxStreak of calculateUnlockedAchievements: the longest run of won
\* predictions, current being the run that ends just before position i
RECURSIVE MaxWinStreak(_, _, _)
MaxWinStreak(predictions, i, current) ==
    IF i > Len(predictions) THEN 0
    ELSE LET run == IF predictions[i].status = "won" THEN current + 1 ELSE 0
         IN  Max(run, MaxWinStreak(predictions, i + 1, run))

\* calculateUnlockedAchievements: the ids of the achievements a portfolio has
\* earned at time t
calculateUnlockedAchievements(pf, t) ==
    LET predictions == pf.predictions
        maxStreak == MaxWinStreak(predictions, 1, 0)
    IN  (IF Len(predictions) > 0 THEN {"first_trade"} ELSE {})
        \cup (IF \E i \in 1..Len(predictions) :
                    predictions[i].betAmount >= HIGH_ROLLER_THRESHOLD
              THEN {"high_roller"} ELSE {})
        \cup (IF maxStreak >= 5 THEN {"winning_streak"} ELSE {})
        \cup (IF maxStreak >= 10 THEN {"perfect_predictor"} ELSE {})
        \cup (IF /\ Len(predictions) >= MARKET_CRASH_SURVIVOR_THRESHOLD
                 /\ \E i \in 1..Len(predictions) : t - predictions[i].created >= 7 * 24
              THEN {"market_crash_survivor"} ELSE {})

\* awardAchievementBonus, in coins
awardAchievementBonus(achievementId) ==
    CASE achievementId = "first_trade" -> ACHIEVEMENT_REWARD
      [] achievementId = "winning_streak" -> ACHIEVEMENT_REWARD * 2
      [] achievementId = "high_roller" -> ACHIEVEMENT_REWARD * 3
      [] achievementId = "market_crash_survivor" -> ACHIEVEMENT_REWARD * 2
      [] achievementId = "perfect_predictor" -> ACHIEVEMENT_REWARD * 5
      [] achievementId = "market_veteran" -> ACHIEVEMENT_REWARD * 4
      [] OTHER -> ACHIEVEMENT_REWARD

RECURSIVE BonusOf(_)
BonusOf(ids) ==
    IF ids = {} THEN 0
    ELSE LET id == CHOOSE x \in ids : TRUE
         IN  awardAchievementBonus(id) + BonusOf(ids \ {id})

\* The portfolio initializeMarket writes once its fetch has returned posts.
\* userPortfolio is gameState.userPortfolio of the render the effect closed
\* over, last the lastDailyReward entry, draws the rankings drawn by
\* resolvePredictions.
initializeMarket(userPortfolio, posts, t, draws, last) ==
    LET resolved == resolvePredictions(userPortfolio, posts, t, draws)
        dailyReward == checkDailyReward(last, t)
        levelUpBonus == checkLevelUpBonus(userPortfolio.level, resolved.level)
        streakBonus == checkStreakBonus(WonCount(resolved.predictions))
        perfectBonus == checkPerfectPredictionBonus(resolved.predictions)
        newAchievements ==
            calculateUnlockedAchievements(resolved, t) \ userPortfolio.achievements
    IN  [resolved EXCEPT
            !.memeCoins =
                resolved.memeCoins
                + (dailyReward.reward + levelUpBonus + streakBonus + perfectBonus
                    + BonusOf(newAchievements)) * FP,
            !.achievements = resolved.achievements \cup newAchievements]

\* React.StrictMode (main.tsx) mounts App twice in a development build, so
\* the mount effect starts initializeMarket twice; both runs close over the
\* first render's gameState.
MountEffectRuns == 2

\* the composite prices calculateInitialPrice is given for the posts of the
\* mount, in PriceScale units
MountRawPrices == {10000}

\* The application right after mount: the runs of initializeMarket await
\* their fetch, no quote exists yet, and the daily reward has or has not been
\* taken today.
MountInit ==
    /\ EngineInit
    /\ ServiceInit
    /\ marketData = <<>>
    /\ now = EpochHours
    /\ trendingPosts = <<>>
    /\ portfolio = NewPortfolio
    /\ nextPredId = 1
    /\ lastOp = [op |-> "none", betAmount |-> 0]
    /\ prev = NewPortfolio
    /\ resolves = 0
    /\ \E last \in {0, Today(EpochHours)} :
            mounted = [userPortfolio |-> NewPortfolio, awaiting |-> MountEffectRuns,
                       lastDailyReward |-> last]

\* The fetch of a run of initializeMarket returns posts: the run initialises
\* their quotes, resolves the portfolio of its closure, adds the bonuses and
\* writes posts, quotes and portfolio to the game state.
InitializeMarket(posts, raw, r, draws) ==
    /\ mounted.awaiting > 0
    /\ marketData' =
            [id \in DOMAIN marketData \cup DOMAIN posts |->
                IF id \in DOMAIN posts THEN initializePostMarket(id, raw, r, mclock)
                ELSE marketData[id]]
    /\ trendingPosts' = posts
    /\ portfolio' = initializeMarket(mounted.userPortfolio, posts, now, draws,
                                     mounted.lastDailyReward)
    /\ mounted' = [mounted EXCEPT !.awaiting = @ - 1, !.lastDailyReward = Today(now)]
    /\ lastOp' = [op |-> "initializeMarket", betAmount |-> 0]
    /\ prev' = portfolio
    /\ UNCHANGED <<now, nextPredId, resolves>>
    /\ UNCHANGED <<sectors, currentSector, mclock, ticks, shocks, updateInterval, rotations>>
    /\ UNCHANGED serviceVars

\* The fetch of a run of initializeMarket fails (getTrendingPosts throws,
\* also when it finds no post): the catch branch empties the posts and the
\* quotes of the game state and leaves the portfolio alone.
InitializeMarketFailed ==
    /\ mounted.awaiting > 0
    /\ trendingPosts' = <<>>
    /\ marketData' = <<>>
    /\ mounted' = [mounted EXCEPT !.awaiting = @ - 1]
    /\ lastOp' = [op |-> "initializeMarketFailed", betAmount |-> 0]
    /\ prev' = portfolio
    /\ UNCHANGED <<now, portfolio, nextPredId, resolves>>
    /\ UNCHANGED <<sectors, currentSector, mclock, ticks, shocks, updateInterval, rotations>>
    /\ UNCHANGED serviceVars

MountNext ==
    \/ \E posts \in Snapshots \ {<<>>}, raw \in MountRawPrices, r \in RandomDraws :
            \E draws \in [1..Len(mounted.userPortfolio.predictions) -> RankingDraws] :
                InitializeMarket(posts, raw, r, draws)
    \/ InitializeMarketFailed
    \/ \E posts \in Snapshots : Fetch(posts)
    \/ \E intent \in Intents : PlaceBet(intent)

SpecMount == MountInit /\ [][MountNext]_vars

-----------------------------------------------------------------------------
(* The market simulator as a state machine *)

MarketInit ==
    /\ AppInit
    /\ EngineInit
    /\ ServiceInit
    /\ marketData = <<>>

\* marketEngine.initializePostMarket(post) for a post not tracked yet
InitializePostMarket(id, raw, r) ==
    /\ id \notin DOMAIN marketData
    /\ marketData' =
            [i \in DOMAIN marketData \cup {id} |->
                IF i = id THEN initializePostMarket(id, raw, r, mclock)
                ELSE marketData[i]]
    /\ UNCHANGED <<sectors, currentSector, mclock, ticks, shocks, updateInterval, rotations>>
    /\ UNCHANGED ledgerVars
    /\ UNCHANGED serviceVars

\* A live interval timer fires d periods after the last firing:
\* updateAllPrices.
Tick(d, draws) ==
    /\ updateInterval.timers # {}
    /\ ticks < MaxTicks
    /\ mclock' = mclock + d
    /\ marketData' =
            [id \in DOMAIN marketData |->
                updatePostPrice(marketData[id], mclock + d, draws[id], currentSector)]
    /\ ticks' = ticks + 1
    /\ shocks' = 0
    /\ UNCHANGED <<sectors, currentSector, updateInterval, rotations>>
    /\ UNCHANGED ledgerVars
    /\ UNCHANGED serviceVars

\* marketEngine.triggerMarketEvent(eventType)
TriggerMarketEvent(eventType) ==
    /\ shocks < MaxShockRun
    /\ marketData' =
            [id \in DOMAIN marketData |-> ShockedQuote(marketData[id], eventType, mclock)]
    /\ shocks' = shocks + 1
    /\ UNCHANGED <<sectors, currentSector, mclock, ticks, updateInterval, rotations>>
    /\ UNCHANGED ledgerVars
    /\ UNCHANGED serviceVars

\* The index of a sector in MarketEngine.sectors, 0-based
SectorIndex(id) == (CHOOSE i \in 1..Len(SectorOrder) : SectorOrder[i] = id) - 1

\* MarketEngine.rotateSector
rotateSector ==
    LET nextIndex == (SectorIndex(currentSector) + 1) % Len(SectorOrder)
        next == SectorOrder[nextIndex + 1]
    IN  /\ currentSector' = next
        /\ sectors' = [sectors EXCEPT ![next] = mclock + SECTOR_DURATION_HOURS]
        /\ rotations' = [count |-> rotations.count + 1, from |-> currentSector,
                          before |-> sectors[currentSector], at |-> mclock]

\* marketEngine.rotateSector() while quotes are ticking
RotateSector ==
    /\ SectorIndex(currentSector) < MaxRotations
    /\ rotateSector
    /\ UNCHANGED <<marketData, mclock, ticks, shocks, updateInterval>>
    /\ UNCHANGED ledgerVars
    /\ UNCHANGED serviceVars

\* marketEngine.destroy()
Destroy ==
    /\ updateInterval' = [timers |-> destroy(updateInterval.timers), destroyed |-> TRUE]
    /\ UNCHANGED <<marketData, sectors, currentSector, mclock, ticks, shocks, rotations>>
    /\ UNCHANGED ledgerVars
    /\ UNCHANGED serviceVars

MarketNext ==
    \/ \E id \in MarketPostIds, raw \in RawPriceSet, r \in RandomDraws :
            InitializePostMarket(id, raw, r)
    \/ \E d \in TickGaps :
            \E draws \in [DOMAIN marketData -> DrawVectors] : Tick(d, draws)
    \/ \E eventType \in {"crash", "boom"} : TriggerMarketEvent(eventType)
    \/ RotateSector

SpecMarket == MarketInit /\ [][MarketNext]_vars

\* The engine from construction to destroy(): quotes are initialised, the
\* timer started by the constructor fires, events are triggered, and the
\* engine is destroyed.
EngineNext ==
    \/ \E id \in MarketPostIds, raw \in RawPriceSet, r \in RandomDraws :
            InitializePostMarket(id, raw, r)
    \/ \E d \in TickGaps :
            \E draws \in [DOMAIN marketData -> DrawVectors] : Tick(d, draws)
    \/ \E eventType \in {"crash", "boom"} : TriggerMarketEvent(eventType)
    \/ Destroy

SpecEngine == MarketInit /\ [][EngineNext]_vars

-----------------------------------------------------------------------------
(* The sector rotation as a state machine *)

\* Time passes in the market engine.
Pass(d) ==
    /\ mclock + d <= MaxSectorClock
    /\ mclock' = mclock + d
    /\ UNCHANGED <<marketData, sectors, currentSector, ticks, shocks,
                   updateInterval, rotations>>
    /\ UNCHANGED ledgerVars
    /\ UNCHANGED serviceVars

\* marketEngine.rotateSector()
NextSector ==
    /\ rotations.count < MaxSectorCalls
    /\ rotateSector
    /\ UNCHANGED <<marketData, mclock, ticks, shocks, updateInterval>>
    /\ UNCHANGED ledgerVars
    /\ UNCHANGED serviceVars

SectorsNext ==
    \/ \E d \in SectorWaits : Pass(d)
    \/ NextSector

SpecSectors == MarketInit /\ [][SectorsNext]_vars

-----------------------------------------------------------------------------
(* The odds calculation as a state machine *)

OddsInit ==
    /\ AppInit
    /\ EngineInit
    /\ ServiceInit
    /\ marketData = <<>>

\* A post card computes the odds of a prediction.  The calculation keeps no
\* state, so one call is followed from the initial state.
Quote(post, ranking, predictionType, targetValue, timeframe, t) ==
    /\ oddsCall.predictionType = "none"
    /\ oddsCall' =
            [post |-> post,
             ranking |-> ranking,
             predictionType |-> predictionType,
             targetValue |-> targetValue,
             timeframe |-> timeframe,
             at |-> t,
             odds |-> calculateOdds(post, [ranking |-> ranking], predictionType,
                                    targetValue, timeframe, t)]
    /\ UNCHANGED <<accrued, streakCall, analyticsCall>>
    /\ UNCHANGED tournamentVars
    /\ UNCHANGED ledgerVars
    /\ UNCHANGED marketVars

OddsNext ==
    /\ oddsCall.predictionType = "none"
    /\ \E post \in OddsPosts, ranking \in OddsRankings, predictionType \in OddsTypes,
          targetValue \in OddsTargets, timeframe \in OddsTimeframes, d \in OddsClock :
            Quote(post, ranking, predictionType, targetValue, timeframe, EpochHours + d)

SpecOdds == OddsInit /\ [][OddsNext]_vars

-----------------------------------------------------------------------------
(* Staking as a state machine *)

\* A portfolio with a balance of StakeBalances: the new portfolio, or one
\* that has won bets.
StakingInit ==
    /\ EngineInit
    /\ ServiceInit
    /\ marketData = <<>>
    /\ now = EpochHours
    /\ trendingPosts = <<>>
    /\ \E coins \in StakeBalances :
            portfolio = [NewPortfolio EXCEPT !.memeCoins = coins * FP]
    /\ prev = portfolio
    /\ nextPredId = 1
    /\ resolves = 0
    /\ mounted = [userPortfolio |-> portfolio, awaiting |-> 0,
                  lastDailyReward |-> 0]
    /\ lastOp = [op |-> "none", amount |-> 0]

\* what a staking step leaves alone
StakingFrame ==
    /\ UNCHANGED <<trendingPosts, nextPredId, resolves, mounted, oddsCall, streakCall,
                   analyticsCall>>
    /\ UNCHANGED tournamentVars
    /\ UNCHANGED marketVars

\* Time passes; the staked coins earn at the rate of their tier.
Elapse(d) ==
    /\ now + d <= EpochHours + MaxStakeClock
    /\ now' = now + d
    /\ accrued' = accrued
            + (portfolio.stakedCoins \div FP)
                * getStakingTier(portfolio.stakedCoins).apr * d
    /\ lastOp' = [op |-> "elapse", amount |-> d]
    /\ prev' = portfolio
    /\ UNCHANGED portfolio
    /\ StakingFrame

\* stakingService.stakeCoins(portfolio, amount)
StakeCoins(amount) ==
    /\ portfolio' = stakeCoins(portfolio, amount * FP, now)
    /\ lastOp' = [op |-> "stake", amount |-> amount]
    /\ prev' = portfolio
    /\ UNCHANGED <<now, accrued>>
    /\ StakingFrame

\* stakingService.unstakeCoins(portfolio, amount)
UnstakeCoins(amount) ==
    /\ portfolio' = unstakeCoins(portfolio, amount * FP, now)
    /\ lastOp' = [op |-> "unstake", amount |-> amount]
    /\ prev' = portfolio
    /\ UNCHANGED <<now, accrued>>
    /\ StakingFrame

\* stakingService.claimRewards(portfolio)
ClaimRewards ==
    /\ portfolio' = claimRewards(portfolio, now)
    /\ lastOp' = [op |-> "claim", amount |-> 0]
    /\ prev' = portfolio
    /\ UNCHANGED <<now, accrued>>
    /\ StakingFrame

StakingNext ==
    \/ \E d \in StakeSteps : Elapse(d)
    \/ \E amount \in StakeAmounts : StakeCoins(amount)
    \/ \E amount \in StakeAmounts : UnstakeCoins(amount)
    \/ ClaimRewards

SpecStaking == StakingInit /\ [][StakingNext]_vars

-----------------------------------------------------------------------------
(* The staking service called with any amount *)

\* the amounts a caller may pass, in coins: negative, zero and positive
WalletAmounts == {0 - 6000, 0, 6000}
\* balances and stakes, in coins, beyond which the wallet is not followed
MaxWallet == 8000

\* balance and stake are within the range that is followed
WithinWallet ==
    /\ Abs(portfolio.memeCoins) <= MaxWallet * FP
    /\ Abs(portfolio.stakedCoins) <= MaxWallet * FP

WalletNext ==
    \/ \E d \in StakeSteps : Elapse(d)
    \/ WithinWallet /\ \E amount \in WalletAmounts : StakeCoins(amount)
    \/ WithinWallet /\ \E amount \in WalletAmounts : UnstakeCoins(amount)
    \/ ClaimRewards

SpecWallet == StakingInit /\ [][WalletNext]_vars

-----------------------------------------------------------------------------
(* The tournament service as a state machine *)

\* a tournament that n users have joined already
Populated(n) ==
    [createTournament EXCEPT
        !.leaderboard = [i \in 1..n |-> NewParticipant("bot" \o ToString(i), i)],
        !.currentParticipants = n,
        !.prizePool = n * createTournament.entryFee]

TournamentInit ==
    /\ AppInit
    /\ EngineInit
    /\ CalculatorInit
    /\ marketData = <<>>
    /\ \E n \in Prefilled :
            /\ tournament = Populated(n)
            /\ tcall = NoCall(Populated(n))
    /\ players = [u \in Users |-> Entrant(u)]

\* what a call of the tournament service leaves alone
TournamentFrame ==
    /\ UNCHANGED <<oddsCall, accrued, streakCall, analyticsCall>>
    /\ UNCHANGED ledgerVars
    /\ UNCHANGED marketVars

\* handleJoinTournament of the user u: the service changes the tournament in
\* place; the handler reads success and error of the result and drops its
\* updatedPortfolio.
JoinTournament(u) ==
    LET result == joinTournament(tournament, players[u])
    IN  /\ tournament' = result.tournament
        /\ UNCHANGED players
        /\ tcall' = [NoCall(tournament) EXCEPT
                        !.op = "join", !.userId = u,
                        !.success = result.success, !.error = result.error,
                        !.portfolio = players[u],
                        !.updatedPortfolio = result.updatedPortfolio,
                        !.scores = tcall.scores]
        /\ TournamentFrame

\* tournamentService.startTournament(id)
StartTournament ==
    LET result == startTournament(tournament)
    IN  /\ tournament' = result.tournament
        /\ UNCHANGED players
        /\ tcall' = [NoCall(tournament) EXCEPT
                        !.op = "start", !.success = result.ok,
                        !.scores = tcall.scores]
        /\ TournamentFrame

\* tournamentService.updateTournamentPoints(id, userId, won, consecutiveWins)
ScorePoint(userId, won, consecutiveWins) ==
    /\ tcall.scores < MaxScores
    /\ tournament' = updateTournamentPoints(tournament, userId, won, consecutiveWins)
    /\ UNCHANGED players
    /\ tcall' = [NoCall(tournament) EXCEPT
                    !.op = "score", !.userId = userId, !.won = won,
                    !.consecutiveWins = consecutiveWins,
                    !.scores = tcall.scores + 1]
    /\ TournamentFrame

\* tournamentService.endTournament(id)
EndTournament ==
    LET result == endTournament(tournament)
    IN  /\ tournament' = result.tournament
        /\ UNCHANGED players
        /\ tcall' = [NoCall(tournament) EXCEPT
                        !.op = "end", !.winners = result.winners,
                        !.prizes = result.prizes, !.scores = tcall.scores]
        /\ TournamentFrame

TournamentNext ==
    \/ \E u \in Users : JoinTournament(u)
    \/ StartTournament
    \/ \E userId \in ScoreUsers, won \in BOOLEAN, consecutiveWins \in ConsecutiveWins :
            ScorePoint(userId, won, consecutiveWins)
    \/ EndTournament

SpecTournament == TournamentInit /\ [][TournamentNext]_vars

-----------------------------------------------------------------------------
(* The streak statistics as a state machine *)

\* portfolio.predictions with the given statuses: handlePlaceBet appends, so
\* the predictions are stored in the order of their creation times
StoredPredictions(statuses) ==
    [i \in DOMAIN statuses |->
        [status |-> statuses[i], created |-> EpochHours + i]]

\* the lists of statuses a portfolio of up to MaxStreakLen predictions has
StreakInputs ==
    UNION {[1..n -> StreakStatuses] : n \in 0..MaxStreakLen}

StreaksInit ==
    /\ AppInit
    /\ EngineInit
    /\ ServiceInit
    /\ marketData = <<>>

\* analyticsService.calculateStreaks(portfolio)
Streaks(predictions) ==
    /\ ~streakCall.called
    /\ streakCall' = [predictions |-> predictions, called |-> TRUE,
                      result |-> calculateStreaks(predictions)]
    /\ UNCHANGED <<oddsCall, accrued, analyticsCall>>
    /\ UNCHANGED tournamentVars
    /\ UNCHANGED ledgerVars
    /\ UNCHANGED marketVars

StreaksNext ==
    /\ ~streakCall.called
    /\ \E statuses \in StreakInputs : Streaks(StoredPredictions(statuses))

SpecStreaks == StreaksInit /\ [][StreaksNext]_vars

-----------------------------------------------------------------------------
(* The analytics queries as a state machine *)

\* the predictions arrays a portfolio may hold: portfolio.predictions is
\* restored from storage at mount and extended by handlePlaceBet with
\* created = Date.now(), the wall clock
QueryInputs ==
    UNION {[1..n -> [status : QueryStatuses, created : {EpochHours + d : d \in QueryTimes}]] :
            n \in 0..MaxQueryLen}

AnalyticsInit ==
    /\ AppInit
    /\ EngineInit
    /\ ServiceInit
    /\ marketData = <<>>

\* analyticsService.<query>(portfolio)
Query(query, predictions) ==
    /\ analyticsCall.query = "none"
    /\ analyticsCall' = [query |-> query, predictions |-> predictions,
                         stored |-> StoredAfter(query, predictions)]
    /\ UNCHANGED <<oddsCall, accrued, streakCall>>
    /\ UNCHANGED tournamentVars
    /\ UNCHANGED ledgerVars
    /\ UNCHANGED marketVars

AnalyticsNext ==
    /\ analyticsCall.query = "none"
    /\ \E query \in AnalyticsQueries, predictions \in QueryInputs :
            Query(query, predictions)

SpecAnalytics == AnalyticsInit /\ [][AnalyticsNext]_vars

-----------------------------------------------------------------------------
(* Properties of the ledger, checked under Spec *)

Terminal(prediction) == prediction.status \in {"won", "lost"}

\* the positions of the predictions held before the last operation
Held == 1..Len(prev.predictions)

\* the predictions the last resolvePredictions run moved from active to won
NewlyWon ==
    {i \in Held : prev.predictions[i].status = "active"
                    /\ portfolio.predictions[i].status = "won"}

RECURSIVE SumOf(_, _)
SumOf(f, S) ==
    IF S = {} THEN 0
    ELSE LET i == CHOOSE j \in S : TRUE IN f[i] + SumOf(f, S \ {i})

\* C1: resolveAll is idempotent on terminal predictions.  After a run of
\* resolvePredictions on a portfolio that already held a won prediction, every
\* prediction that was terminal is unchanged, and if the run moved no
\* prediction (as a second run on the same items at the same time does) the
\* balance and the predictions array are those from before the run.
C1_ResolveIdempotent ==
    (lastOp.op = "resolveAll" /\ \E i \in Held : prev.predictions[i].status = "won")
        => /\ Len(portfolio.predictions) = Len(prev.predictions)
           /\ \A i \in Held :
                Terminal(prev.predictions[i])
                    => portfolio.predictions[i] = prev.predictions[i]
           /\ (\A i \in Held :
                    portfolio.predictions[i].status = prev.predictions[i].status)
                => /\ portfolio.memeCoins = prev.memeCoins
                   /\ portfolio.predictions = prev.predictions

\* C2: no prediction is resolved before its timeframe has elapsed.  Every
\* prediction that is won or lost was resolved at a time not before
\* created + timeframe.hours.
C2_NoEarlyResolution ==
    \A i \in 1..Len(portfolio.predictions) :
        LET p == portfolio.predictions[i]
        IN  Terminal(p) => p.resolved[1] >= p.created + TimeframeHours(p.timeframe)

\* C3: the status of a prediction is monotonic.  In every step a prediction
\* that enters the array is active, no prediction leaves the array or changes
\* its place, a status changes only from active to won or lost, and a won or
\* lost prediction keeps its status and its resolved timestamp.
C3_StatusMonotonic ==
    [][ /\ Len(portfolio'.predictions) >= Len(portfolio.predictions)
        /\ \A i \in 1..Len(portfolio'.predictions) :
            LET new == portfolio'.predictions[i]
            IN  IF i > Len(portfolio.predictions)
                THEN new.status = "active" /\ new.resolved = <<>>
                ELSE LET old == portfolio.predictions[i]
                     IN  /\ new.id = old.id
                         /\ new.status \in {"active", "won", "lost"}
                         /\ new.status # old.status => old.status = "active"
                         /\ Terminal(old) => new.resolved = old.resolved
      ]_vars

\* C3's case: resolvePredictions has run on a portfolio that held a lost
\* prediction next to an active one, and a won one is held now.
C3_Witness ==
    /\ lastOp.op = "resolveAll"
    /\ \E i \in Held : prev.predictions[i].status = "lost"
    /\ \E i \in Held : prev.predictions[i].status = "active"
    /\ \E i \in Held : portfolio.predictions[i].status = "won"

\* C4: forced expiry counts from the prediction's creation.  Every lost
\* prediction was resolved more than PREDICTION_EXPIRY_HOURS after it was
\* created.
C4_ExpiryFromCreation ==
    \A i \in 1..Len(portfolio.predictions) :
        LET p == portfolio.predictions[i]
        IN  p.status = "lost" => p.resolved[1] - p.created > PREDICTION_EXPIRY_HOURS

\* |(score - baseline) / hours - target| <= 0.10 * target, for the baseline
\* b[1] / b[2], cleared of the divisions
GrowthRateMet(score, b, hours, target) ==
    Abs(score * b[2] - b[1] - target * hours * b[2]) * 10 <= target * hours * b[2]

\* C5: a growth_rate prediction whose timeframe has elapsed is resolved won
\* by resolvePredictions if and only if (currentScore - baselineValue) /
\* timeframeHours is within 10% of the target.
C5_GrowthRateRule ==
    [][ resolves' = resolves + 1 =>
            \A i \in 1..Len(portfolio.predictions) :
                LET p == portfolio.predictions[i]
                    hours == TimeframeHours(p.timeframe)
                IN  (/\ p.status = "active"
                     /\ p.predictionType = "growth_rate"
                     /\ p.postId \in DOMAIN trendingPosts
                     /\ now >= p.created + hours)
                    => (portfolio'.predictions[i].status = "won"
                            <=> GrowthRateMet(trendingPosts[p.postId].score,
                                              p.baselineValue, hours, p.targetValue))
      ]_vars

\* the last operation was a press of "Place Bet" with this amount
BetOf(amount) == lastOp.op = "placeBet" /\ lastOp.betAmount = amount

\* C6: a bet whose amount is outside [10, 1000] is rejected: no prediction is
\* appended, balance and experience are unchanged.
C6_BetBounds ==
    (lastOp.op = "placeBet" /\ (lastOp.betAmount < 10 \/ lastOp.betAmount > 1000))
        => /\ portfolio.predictions = prev.predictions
           /\ portfolio.memeCoins = prev.memeCoins
           /\ portfolio.experience = prev.experience

\* C6's case: a bet of 9 was made, and a bet of 1001 can be made by a
\* portfolio that could pay it.
C6_Witness ==
    \/ BetOf(9) /\ prev.memeCoins >= 9 * FP
    \/ BetOf(1001) /\ prev.memeCoins >= 1001 * FP

\* C7: a bet greater than the balance is rejected and leaves the portfolio as
\* it was, field for field.
C7_InsufficientFunds ==
    (lastOp.op = "placeBet" /\ lastOp.betAmount * FP > prev.memeCoins)
        => portfolio = prev

\* C7's case: a bet within the bounds was made that the balance did not cover.
C7_Witness ==
    /\ lastOp.op = "placeBet"
    /\ lastOp.betAmount >= 10 /\ lastOp.betAmount <= 1000
    /\ lastOp.betAmount * FP > prev.memeCoins

\* the last operation was a bet within the bounds that the balance covered
Placed ==
    /\ lastOp.op = "placeBet"
    /\ lastOp.betAmount >= 10 /\ lastOp.betAmount <= 1000
    /\ lastOp.betAmount * FP <= prev.memeCoins

\* C8: a successful bet debits the balance by betAmount, appends exactly one
\* prediction, active and with resolved = null, credits floor(0.05 * betAmount)
\* experience, recomputes the level from the new experience, and leaves staked
\* balance, staking rewards, achievements and the existing predictions alone.
C8_PlaceBetFrame ==
    Placed =>
        LET n == Len(prev.predictions)
        IN  /\ portfolio.memeCoins = prev.memeCoins - lastOp.betAmount * FP
            /\ Len(portfolio.predictions) = n + 1
            /\ SubSeq(portfolio.predictions, 1, n) = prev.predictions
            /\ portfolio.predictions[n + 1].status = "active"
            /\ portfolio.predictions[n + 1].resolved = <<>>
            /\ portfolio.predictions[n + 1].betAmount = lastOp.betAmount
            /\ portfolio.experience = prev.experience + (lastOp.betAmount * 5) \div 100
            /\ portfolio.level = calculateLevel(portfolio.experience)
            /\ portfolio.stakedCoins = prev.stakedCoins
            /\ portfolio.stakingRewards = prev.stakingRewards
            /\ portfolio.achievements = prev.achievements

\* C8's case: a bet was placed by a portfolio that held a resolved prediction
\* already and has left level 1.
C8_Witness ==
    /\ Placed
    /\ \E i \in Held : Terminal(prev.predictions[i])
    /\ portfolio.level > 1

\* C9: the balance change of one run of resolvePredictions is the sum of
\* betAmount * odds over the predictions the run moved from active to won, and
\* the experience change the sum of floor(0.1 * betAmount * odds) over them.
C9_CreditSums ==
    lastOp.op = "resolveAll" =>
        /\ portfolio.memeCoins - prev.memeCoins =
                SumOf([i \in Held |->
                        prev.predictions[i].betAmount * prev.predictions[i].odds],
                      NewlyWon)
        /\ portfolio.experience - prev.experience =
                SumOf([i \in Held |->
                        (prev.predictions[i].betAmount * prev.predictions[i].odds)
                            \div (10 * FP)],
                      NewlyWon)

\* the run of resolvePredictions in this step finds none of the predictions'
\* posts among the posts it is given (none at all when the list is empty)
NoItemMatches ==
    /\ resolves' = resolves + 1
    /\ \A i \in 1..Len(portfolio.predictions) :
            portfolio.predictions[i].postId \notin DOMAIN trendingPosts

\* C24: resolveAll with an empty list of items, or with items that match none
\* of the predictions, returns a portfolio whose balance, experience, level
\* and predictions are those of its input, whatever mix of active, won and
\* lost predictions the input holds.
C24_NothingToResolve ==
    [][NoItemMatches
        => /\ portfolio'.memeCoins = portfolio.memeCoins
           /\ portfolio'.experience = portfolio.experience
           /\ portfolio'.level = portfolio.level
           /\ portfolio'.predictions = portfolio.predictions]_vars

-----------------------------------------------------------------------------
(* Properties of the staking service called with any amount, checked under
   SpecWallet *)

\* C27: balances never go negative.  For any amount the service accepts,
\* zero and negative amounts included, every portfolio reached from a
\* non-negative balance and stake has memeCoins >= 0 and stakedCoins >= 0,
\* and a stake or an unstake leaves memeCoins + stakedCoins unchanged apart
\* from the reward the unstake credits.
C27_NonNegativeWallet ==
    /\ portfolio.memeCoins >= 0
    /\ portfolio.stakedCoins >= 0
    /\ lastOp.op = "stake"
        => portfolio.memeCoins + portfolio.stakedCoins
            = prev.memeCoins + prev.stakedCoins
    /\ lastOp.op = "unstake"
        => portfolio.memeCoins + portfolio.stakedCoins
            = prev.memeCoins + prev.stakedCoins
                + (portfolio.stakingRewards - prev.stakingRewards)

-----------------------------------------------------------------------------
(* Properties of the mount, checked under SpecMount *)

\* C26: no portfolio update is lost to an interleaving.  When a run of
\* initializeMarket writes its portfolio, every prediction placed before the
\* write (also one placed while the run awaited its fetch) is still in the
\* predictions array, and the balance is the one the run gives when it starts
\* from the current, debited balance.
C26_NoLostUpdate ==
    [][lastOp'.op = "initializeMarket" /\ mounted'.awaiting < mounted.awaiting
        => /\ \A i \in 1..Len(portfolio.predictions) :
                /\ i <= Len(portfolio'.predictions)
                /\ portfolio'.predictions[i].id = portfolio.predictions[i].id
           /\ \E draws \in [1..Len(portfolio.predictions) -> RankingDraws] :
                portfolio'.memeCoins =
                    initializeMarket(portfolio, trendingPosts', now, draws,
                                     mounted.lastDailyReward).memeCoins]_vars

-----------------------------------------------------------------------------
(* Properties of the market simulator, checked under SpecMarket *)

\* C10: every tracked quote has currentPrice >= MIN_PRICE (0.01), after
\* initializePostMarket and any sequence of ticks and crash/boom events.
C10_PriceFloor ==
    \A id \in DOMAIN marketData : marketData[id].currentPrice >= PriceScale \div 100

\* C10's case: a tick and, after it, a market event have acted on a quote
\* whose price stands at the floor.
C10_Witness ==
    /\ ticks > 0
    /\ shocks > 0
    /\ \E id \in DOMAIN marketData :
            /\ marketData[id].currentPrice = PriceScale \div 100
            /\ marketData[id].previousPrice = PriceScale \div 100

\* the sign of a number: -1, 0 or 1
Sign(x) == IF x > 0 THEN 1 ELSE IF x < 0 THEN 0 - 1 ELSE 0

\* C23: in every quote reachable through ticks and market events the stored
\* fields agree: trend is up iff currentPrice > previousPrice, down iff
\* currentPrice < previousPrice, stable iff they are equal, and changePercent
\* has the sign of currentPrice - previousPrice, also when the price is held
\* at the MIN_PRICE floor or rounded to 2 decimals.
C23_QuoteFieldsAgree ==
    \A id \in DOMAIN marketData :
        LET q == marketData[id]
            diff == q.currentPrice - q.previousPrice
        IN  /\ (q.trend = "up") <=> (diff > 0)
            /\ (q.trend = "down") <=> (diff < 0)
            /\ (q.trend = "stable") <=> (diff = 0)
            /\ Sign(q.changePercent) = Sign(diff)

\* C29: a tick performed at most one tick period (30 s) after a quote's
\* lastUpdated never lowers its price: the new currentPrice is at least the
\* previous currentPrice and the trend is not down, for every random draw and
\* every sector.
C29_PromptTickNeverLowers ==
    [][ticks' = ticks + 1
        => \A id \in DOMAIN marketData :
                mclock' - marketData[id].lastUpdated <= 1
                    => /\ marketData'[id].currentPrice >= marketData[id].currentPrice
                       /\ marketData'[id].trend # "down"]_vars

-----------------------------------------------------------------------------
(* Properties of the engine's timer, checked under SpecEngine *)

-----------------------------------------------------------------------------
(* Properties of the odds calculation, checked under SpecOdds *)

Quoted == oddsCall.predictionType # "none"

\* C11: for every post (score 0, no comments and an age of 0 or less
\* included), quote, prediction type, target (0 included) and timeframe,
\* calculateOdds returns a number between 1.1 and 50.
C11_OddsBounds ==
    Quoted => /\ oddsCall.odds >= 1100000
              /\ oddsCall.odds <= 50000000

\* C11's case: odds were computed for a growth_rate prediction with target 0
\* on a post without upvotes and comments whose age is not positive.
C11_Witness ==
    /\ oddsCall.predictionType = "growth_rate"
    /\ oddsCall.targetValue = 0
    /\ oddsCall.post.score = 0
    /\ oddsCall.post.commentCount = 0
    /\ oddsCall.at - oddsCall.post.created * 1000 <= 0

\* the key of PREDICTION_TYPES whose entry has this id
ConfigKey(id) ==
    CASE id = "growth_rate" -> "GROWTH_RATE"
      [] id = "milestone_reach" -> "MILESTONE_REACH"
      [] id = "ranking_position" -> "RANKING_POSITION"
      [] id = "engagement_ratio" -> "ENGAGEMENT_RATIO"
      [] id = "virality_index" -> "VIRALITY_INDEX"

\* C12: for each of the five prediction types as stored on a Prediction,
\* calculateOdds returns baseOdds(type) * volatilityFactor *
\* timeframeMultiplier * subredditMultiplier * difficultyMultiplier clamped to
\* [1.1, 50]; only a type outside the five yields the default 2.0.
C12_OddsFormula ==
    (Quoted /\ oddsCall.predictionType \in PredictionTypes) =>
        LET c == oddsCall
            quote == [ranking |-> c.ranking]
            product ==
                BaseOdds(ConfigKey(c.predictionType))
                * calculateVolatilityFactor(c.post, quote, c.at)
                * TimeframeMultiplier(c.timeframe)
                * SubredditMultiplier(c.post.subreddit)
            difficulty ==
                calculateDifficultyMultiplier(c.predictionType, c.post,
                                              c.targetValue, c.at)
        IN  difficulty # NaN =>
                c.odds = Max(1100000, Min(50000000, ScaledProduct(difficulty, product)))

-----------------------------------------------------------------------------
(* Claims about staking, checked under SpecStaking *)

\* C13: staking rewards are never counted twice.  A claim made when no time
\* has passed since the claim clock was last set credits nothing, and at
\* every moment the rewards credited so far are at most what the staked coins
\* have earned over the time that has passed.
C13_NoDoubleCount ==
    /\ (lastOp.op = "claim" /\ prev.lastStakingClaim = now) =>
            /\ portfolio.memeCoins = prev.memeCoins
            /\ portfolio.stakingRewards = prev.stakingRewards
    /\ (portfolio.stakingRewards \div FP) * YearUnits <= accrued

\* C13's case: a claim right after rewards were credited, on a portfolio that
\* still has coins staked and no time in between.
C13_Witness ==
    /\ lastOp.op = "claim"
    /\ prev.lastStakingClaim = now
    /\ prev.stakedCoins > 0
    /\ prev.stakingRewards > 0
    /\ accrued > (portfolio.stakingRewards \div FP) * YearUnits

\* C14: unstaking an amount within the stake first credits the reward
\* claimable on the whole stake, then moves the amount back: balance = old
\* balance + claimable + amount, staked = old staked - amount, stakingRewards
\* = old + claimable, claim clock = now.  An amount above the stake fails and
\* leaves the portfolio as it was.
C14_UnstakeClaimsFirst ==
    lastOp.op = "unstake" =>
        LET amount == lastOp.amount * FP
            claimable == calculateStakingRewards(prev, now) * FP
        IN  IF amount <= prev.stakedCoins
            THEN /\ portfolio.memeCoins = prev.memeCoins + claimable + amount
                 /\ portfolio.stakedCoins = prev.stakedCoins - amount
                 /\ portfolio.stakingRewards = prev.stakingRewards + claimable
                 /\ portfolio.lastStakingClaim = now
            ELSE portfolio = prev

\* C14's case: part of the stake was taken out while a reward was pending.
C14_Witness ==
    /\ lastOp.op = "unstake"
    /\ lastOp.amount * FP < prev.stakedCoins
    /\ calculateStakingRewards(prev, now) > 0
    /\ portfolio.stakingRewards > prev.stakingRewards

\* C14's failing case: more was asked for than is staked.
C14_Rejected ==
    /\ lastOp.op = "unstake"
    /\ lastOp.amount * FP > prev.stakedCoins
    /\ prev.stakedCoins > 0

\* C30: accrued staking yield is never discarded.  Every accepted stake,
\* unstake or claim sets the claim clock to now, and it credits the reward
\* claimable at that moment to the balance and to the rewards counter.
C30_YieldNeverDiscarded ==
    LET amount == lastOp.amount * FP
        claimable == calculateStakingRewards(prev, now) * FP
        moved ==
            CASE lastOp.op = "stake" -> 0 - amount
              [] lastOp.op = "unstake" -> amount
              [] OTHER -> 0
        accepted ==
            \/ lastOp.op = "stake" /\ amount <= prev.memeCoins
            \/ lastOp.op = "unstake" /\ amount <= prev.stakedCoins
            \/ lastOp.op = "claim"
    IN  accepted =>
            /\ portfolio.lastStakingClaim = now
            /\ portfolio.stakingRewards = prev.stakingRewards + claimable
            /\ portfolio.memeCoins = prev.memeCoins + claimable + moved

-----------------------------------------------------------------------------
(* Claims about tournaments, checked under SpecTournament *)

\* the userIds of a leaderboard
UserIds(leaderboard) == {leaderboard[i].userId : i \in DOMAIN leaderboard}

\* C15: each userId appears at most once in the leaderboard, and a join by a
\* userId that is on the leaderboard already returns an error and leaves the
\* leaderboard length, currentParticipants and prizePool as they were.
C15_JoinOnce ==
    /\ Cardinality(UserIds(tournament.leaderboard)) = Len(tournament.leaderboard)
    /\ (tcall.op = "join" /\ tcall.userId \in UserIds(tcall.before.leaderboard)) =>
            /\ ~tcall.success
            /\ tcall.error # ""
            /\ Len(tournament.leaderboard) = Len(tcall.before.leaderboard)
            /\ tournament.currentParticipants = tcall.before.currentParticipants
            /\ tournament.prizePool = tcall.before.prizePool

\* C15's case: a user who is on the leaderboard joins once more while the
\* tournament is upcoming, has room, and the user can pay the fee.
C15_Witness ==
    /\ tcall.op = "join"
    /\ tcall.userId \in UserIds(tcall.before.leaderboard)
    /\ tcall.before.status = "upcoming"
    /\ tcall.before.currentParticipants < tcall.before.maxParticipants
    /\ tcall.portfolio.memeCoins >= tcall.before.entryFee * FP
    /\ tcall.error = "Already participating in this tournament"

\* C16: the status of a tournament only moves upcoming -> active ->
\* completed: it changes from upcoming to active in a start, from active to
\* completed in an end, and in no other way; a start succeeds only from
\* upcoming, and a start from another status or an end from a status other
\* than active changes nothing.
C16_StatusOneWay ==
    [][/\ tournament'.status # tournament.status =>
            \/ /\ tournament.status = "upcoming"
               /\ tournament'.status = "active"
               /\ tcall'.op = "start"
            \/ /\ tournament.status = "active"
               /\ tournament'.status = "completed"
               /\ tcall'.op = "end"
       /\ tcall'.op = "start" =>
            /\ tcall'.success = (tournament.status = "upcoming")
            /\ tournament.status # "upcoming" => tournament' = tournament
       /\ (tcall'.op = "end" /\ tournament.status # "active") =>
            tournament' = tournament]_vars

\* C16's case: a start was asked of a tournament that is completed.
C16_Witness ==
    /\ tcall.op = "start"
    /\ tcall.before.status = "completed"
    /\ tournament.status = "completed"

\* whether joinTournament has to reject the portfolio pf on the tournament t
MustReject(t, pf) ==
    \/ t.status # "upcoming"
    \/ t.currentParticipants >= t.maxParticipants
    \/ pf.memeCoins < t.entryFee * FP
    \/ pf.userId \in UserIds(t.leaderboard)

\* C17: a join is rejected when the tournament is not upcoming, is full, the
\* caller's balance is below the entry fee or the caller is on the
\* leaderboard; a rejected join changes neither the tournament nor the
\* portfolio; a successful join debits entryFee from the user's balance, adds
\* entryFee to prizePool and appends one participant with points 0.
C17_JoinRules ==
    tcall.op = "join" =>
        LET t == tcall.before
            pf == tcall.portfolio
            n == Len(t.leaderboard)
        IN  /\ tcall.success = ~MustReject(t, pf)
            /\ MustReject(t, pf) =>
                    /\ tournament = t
                    /\ players[tcall.userId] = pf
            /\ ~MustReject(t, pf) =>
                    /\ players[tcall.userId].memeCoins
                            = pf.memeCoins - t.entryFee * FP
                    /\ tournament.prizePool = t.prizePool + t.entryFee
                    /\ Len(tournament.leaderboard) = n + 1
                    /\ SubSeq(tournament.leaderboard, 1, n) = t.leaderboard
                    /\ tournament.leaderboard[n + 1].userId = pf.userId
                    /\ tournament.leaderboard[n + 1].points = 0

\* C18: the leaderboard is ordered by points descending and the participant
\* at position i (counted from 1) has rank i; a scored bet of a participant
\* of an active tournament adds floor(basePoints(won) * (1.5 if won and
\* consecutiveWins > 1, else 1)) to the participant's points, and a scored
\* bet on a tournament that is not active changes nothing.
C18_RankedLeaderboard ==
    LET lb == tournament.leaderboard
        old == tcall.before.leaderboard
    IN  /\ \A i \in DOMAIN lb :
                /\ lb[i].rank = i
                /\ i > 1 => lb[i - 1].points >= lb[i].points
        /\ (tcall.op = "score" /\ tcall.before.status # "active") =>
                tournament = tcall.before
        /\ (/\ tcall.op = "score"
            /\ tcall.before.status = "active"
            /\ tcall.userId \in UserIds(old)) =>
                lb[FindParticipant(lb, tcall.userId)].points
                    = old[FindParticipant(old, tcall.userId)].points
                        + (IF tcall.won
                           THEN IF tcall.consecutiveWins > 1 THEN 15 ELSE 10
                           ELSE 0 - 2)

\* C18's case: a scored bet moved a participant to another position of the
\* leaderboard.
C18_Witness ==
    /\ tcall.op = "score"
    /\ tcall.before.status = "active"
    /\ tcall.userId \in UserIds(tcall.before.leaderboard)
    /\ FindParticipant(tournament.leaderboard, tcall.userId)
            # FindParticipant(tcall.before.leaderboard, tcall.userId)
    /\ \E i \in DOMAIN tournament.leaderboard :
            tournament.leaderboard[i].points < 0

\* the sum of the first n prizes
RECURSIVE PrizeSum(_, _)
PrizeSum(prizes, n) ==
    IF n = 0 THEN 0 ELSE prizes[n] + PrizeSum(prizes, n - 1)

\* C19: an end of an active tournament with N participants returns the top
\* min(K, N) entries of the leaderboard in descending order of points, each
\* paired with the prize prizePool * fraction[i] (K = 4 fractions), so there
\* are as many prizes as winners and the prizes sum to at most prizePool; an
\* end of a tournament that is not active returns no winners and no prizes
\* and changes nothing.
C19_PrizePerWinner ==
    tcall.op = "end" =>
        LET t == tcall.before
            ratios == TOURNAMENT_CONFIG.PRIZE_DISTRIBUTION
            top == Min(Len(ratios), Len(t.leaderboard))
        IN  IF t.status = "active"
            THEN /\ tcall.winners = SubSeq(SortByPoints(t.leaderboard), 1, top)
                 /\ Len(tcall.prizes) = Len(tcall.winners)
                 /\ \A i \in DOMAIN tcall.prizes :
                        tcall.prizes[i] * 100 = t.prizePool * ratios[i]
                 /\ PrizeSum(tcall.prizes, Len(tcall.prizes)) <= t.prizePool
            ELSE /\ tcall.winners = <<>>
                 /\ tcall.prizes = <<>>
                 /\ tournament = t

-----------------------------------------------------------------------------
(* Claims about the streak statistics, checked under SpecStreaks *)

\* whether the k elements of seq that end at position last all are status
IsRun(seq, last, k, status) ==
    /\ k <= last
    /\ \A i \in (last - k + 1)..last : seq[i] = status

\* the number of elements equal to status at the end of seq
TrailingRun(seq, status) ==
    CHOOSE k \in 0..Len(seq) :
        /\ IsRun(seq, Len(seq), k, status)
        /\ ~IsRun(seq, Len(seq), k + 1, status)

\* the length of the longest run of status in seq
LongestRun(seq, status) ==
    CHOOSE k \in 0..Len(seq) :
        /\ \E last \in k..Len(seq) : IsRun(seq, last, k, status)
        /\ \A last \in 1..Len(seq) : ~IsRun(seq, last, k + 1, status)

\* C20: for every list of resolved predictions calculateStreaks returns as
\* the current win (loss) streak the number of consecutive won (lost)
\* predictions counted backward from the most recently created resolved
\* prediction, the other current streak being 0, and as best win (loss)
\* streak the longest run of consecutive wins (losses) in chronological order.
C20_Streaks ==
    streakCall.called =>
        LET resolved == SelectSeq(streakCall.predictions,
                            LAMBDA p : p.status = "won" \/ p.status = "lost")
            chronological == [i \in DOMAIN resolved |-> resolved[i].status]
            r == streakCall.result
        IN  /\ r.currentWinStreak = TrailingRun(chronological, "won")
            /\ r.currentLossStreak = TrailingRun(chronological, "lost")
            /\ r.bestWinStreak = LongestRun(chronological, "won")
            /\ r.bestLossStreak = LongestRun(chronological, "lost")

-----------------------------------------------------------------------------
(* Claims about the analytics queries, checked under SpecAnalytics *)

\* C21: every analytics query (calculateStreaks, analyzeSubreddits,
\* calculateRiskMetrics, getBettingFrequency, getFavoriteSubreddits) is
\* read-only: after it returns, the predictions array of the portfolio passed
\* in has the contents and the order it had before the call.
C21_QueriesReadOnly ==
    analyticsCall.query # "none" =>
        analyticsCall.stored = analyticsCall.predictions

-----------------------------------------------------------------------------
(* Claims about the sectors, checked under SpecSectors *)

\* the sector that follows id in the cyclic order cats -> politics ->
\* gaming -> food -> wtf -> cats
Successor(id) ==
    CASE id = "cats" -> "politics"
      [] id = "politics" -> "gaming"
      [] id = "gaming" -> "food"
      [] id = "food" -> "wtf"
      [] id = "wtf" -> "cats"

\* C22: at every moment, after any number of rotateSector calls, exactly one
\* sector is active: the current sector is the only sector whose activeUntil
\* lies in the future; rotateSector moves the current sector to the next one
\* in the cyclic order, and 5 calls lead back to the starting sector.
C22_OneActiveSector ==
    /\ \A id \in DOMAIN sectors : (sectors[id] > mclock) <=> (id = currentSector)
    /\ rotations.count > 0 => currentSector = Successor(rotations.from)
    /\ rotations.count = 5 => currentSector = "cats"

-----------------------------------------------------------------------------
(* The books of a tournament, checked under SpecTournament *)

\* C28: every tournament has currentParticipants = Len(leaderboard) <=
\* maxParticipants and prizePool = entryFee * currentParticipants, and a
\* start, a scored point or an end changes neither the prize pool nor the
\* set of participants.
C28_TournamentBooks ==
    /\ tournament.currentParticipants = Len(tournament.leaderboard)
    /\ tournament.currentParticipants <= tournament.maxParticipants
    /\ tournament.prizePool = tournament.entryFee * tournament.currentParticipants
    /\ tcall.op \in {"start", "score", "end"} =>
            /\ tournament.prizePool = tcall.before.prizePool
            /\ UserIds(tournament.leaderboard) = UserIds(tcall.before.leaderboard)

\* C28's case: users have joined the tournament up to its capacity, it was
\* started, and a scored point has changed its leaderboard.
C28_Witness ==
    /\ tcall.op = "score"
    /\ tournament.leaderboard # tcall.before.leaderboard
    /\ tournament.currentParticipants = tournament.maxParticipants
    /\ \E u \in Users : u \in UserIds(tournament.leaderboard)

====
